---- MODULE Spec2Model ----
(***************************************************************************)
(* Admission-probability pipeline of Chancify AI: the hybrid ML+formula    *)
(* predictor (backend/ml/models/predictor.py), the profile-strength aware  *)
(* elite calibration (backend/ml/models/enhanced_calibration.py), the misc *)
(* uplift (backend/ml/preprocessing/misc_features.py) and the prediction   *)
(* entry points (backend/main.py, backend/api/routes/calculations.py).     *)
(*                                                                         *)
(* Numbers are exact fixed-point integers.  Each quantity has a scale:     *)
(*   bp    1e-4  input probabilities, acceptance rates, formula_prob,      *)
(*               ml_prob                                                   *)
(*   e5    1e-5  the blended probability, the misc uplift                  *)
(*   e8    1e-8  ml_confidence; final_prob after calibration, uplift, clip *)
(*   nano  1e-9  the probability and confidence interval of a result       *)
(* Where the rounding of Python's doubles decides what the code does (the  *)
(* branches of the acceptance-rate-aware calibration, round(), the         *)
(* arithmetic of the suggestion endpoint) the doubles themselves are       *)
(* computed.                                                               *)
(* Python's None is the sentinel NoneVal.  Strings that the code inspects  *)
(* character by character (college names) are sequences of one-character   *)
(* strings.                                                                *)
(***************************************************************************)
EXTENDS Integers, Sequences, FiniteSets, TLC

NoneVal == -999999

\* Number of equal steps of the grid the probabilistic inputs are drawn from.
GridN == 4

Min(a, b) == IF a <= b THEN a ELSE b
Max(a, b) == IF a >= b THEN a ELSE b

\* np.clip(x, lo, hi)
Clip(x, lo, hi) == Max(lo, Min(hi, x))

SetMin(S) == CHOOSE x \in S : \A y \in S : x <= y

(***************************************************************************)
(* str.lower() and the substring test `a in b`.  A name is a sequence of   *)
(* characters of Latin-1; UpperToLower holds every character of Latin-1    *)
(* that str.lower() changes.                                               *)
(***************************************************************************)
UpperToLower ==
  ("A" :> "a") @@ ("B" :> "b") @@ ("C" :> "c") @@ ("D" :> "d") @@
  ("E" :> "e") @@ ("F" :> "f") @@ ("G" :> "g") @@ ("H" :> "h") @@
  ("I" :> "i") @@ ("J" :> "j") @@ ("K" :> "k") @@ ("L" :> "l") @@
  ("M" :> "m") @@ ("N" :> "n") @@ ("O" :> "o") @@ ("P" :> "p") @@
  ("Q" :> "q") @@ ("R" :> "r") @@ ("S" :> "s") @@ ("T" :> "t") @@
  ("U" :> "u") @@ ("V" :> "v") @@ ("W" :> "w") @@ ("X" :> "x") @@
  ("Y" :> "y") @@ ("Z" :> "z") @@
  ("À" :> "à") @@ ("Á" :> "á") @@ ("Â" :> "â") @@ ("Ã" :> "ã") @@
  ("Ä" :> "ä") @@ ("Å" :> "å") @@ ("Æ" :> "æ") @@ ("Ç" :> "ç") @@
  ("È" :> "è") @@ ("É" :> "é") @@ ("Ê" :> "ê") @@ ("Ë" :> "ë") @@
  ("Ì" :> "ì") @@ ("Í" :> "í") @@ ("Î" :> "î") @@ ("Ï" :> "ï") @@
  ("Ð" :> "ð") @@ ("Ñ" :> "ñ") @@ ("Ò" :> "ò") @@ ("Ó" :> "ó") @@
  ("Ô" :> "ô") @@ ("Õ" :> "õ") @@ ("Ö" :> "ö") @@ ("Ø" :> "ø") @@
  ("Ù" :> "ù") @@ ("Ú" :> "ú") @@ ("Û" :> "û") @@ ("Ü" :> "ü") @@
  ("Ý" :> "ý") @@ ("Þ" :> "þ")

LowerChar(c) == IF c \in DOMAIN UpperToLower THEN UpperToLower[c] ELSE c

Lower(s) == [i \in 1..Len(s) |-> LowerChar(s[i])]

\* Python `needle in hay` on strings
Contains(needle, hay) ==
  \E i \in 0..(Len(hay) - Len(needle)) :
     SubSeq(hay, i + 1, i + Len(needle)) = needle

(***************************************************************************)
(* AdmissionPredictor._load_elite_calibration.  A table is the dict in     *)
(* insertion order: a sequence of entries with the key in name; factor,    *)
(* max_prob and acceptance_rate are in thousandths.                        *)
(***************************************************************************)
\* the table the loader falls back to when the calibration file is missing
\* or cannot be read
elite_calibration ==
  <<
     [name |-> <<"m","a","s","s","a","c","h","u","s","e","t","t","s"," ","i","n","s","t","i","t","u","t","e"," ","o","f"," ","t","e","c","h","n","o","l","o","g","y">>,
      factor |-> 73, max_prob |-> 98, acceptance_rate |-> 41],
     [name |-> <<"h","a","r","v","a","r","d"," ","u","n","i","v","e","r","s","i","t","y">>,
      factor |-> 74, max_prob |-> 98, acceptance_rate |-> 40],
     [name |-> <<"s","t","a","n","f","o","r","d"," ","u","n","i","v","e","r","s","i","t","y">>,
      factor |-> 74, max_prob |-> 98, acceptance_rate |-> 40],
     [name |-> <<"y","a","l","e"," ","u","n","i","v","e","r","s","i","t","y">>,
      factor |-> 107, max_prob |-> 146, acceptance_rate |-> 53],
     [name |-> <<"p","r","i","n","c","e","t","o","n"," ","u","n","i","v","e","r","s","i","t","y">>,
      factor |-> 109, max_prob |-> 147, acceptance_rate |-> 44],
     [name |-> <<"c","o","l","u","m","b","i","a"," ","u","n","i","v","e","r","s","i","t","y">>,
      factor |-> 110, max_prob |-> 147, acceptance_rate |-> 41],
     [name |-> <<"u","n","i","v","e","r","s","i","t","y"," ","o","f"," ","p","e","n","n","s","y","l","v","a","n","i","a">>,
      factor |-> 106, max_prob |-> 146, acceptance_rate |-> 59],
     [name |-> <<"d","a","r","t","m","o","u","t","h"," ","c","o","l","l","e","g","e">>,
      factor |-> 105, max_prob |-> 145, acceptance_rate |-> 62],
     [name |-> <<"b","r","o","w","n"," ","u","n","i","v","e","r","s","i","t","y">>,
      factor |-> 107, max_prob |-> 146, acceptance_rate |-> 55],
     [name |-> <<"u","n","i","v","e","r","s","i","t","y"," ","o","f"," ","c","h","i","c","a","g","o">>,
      factor |-> 104, max_prob |-> 145, acceptance_rate |-> 65],
     [name |-> <<"c","o","r","n","e","l","l"," ","u","n","i","v","e","r","s","i","t","y">>,
      factor |-> 165, max_prob |-> 210, acceptance_rate |-> 87],
     [name |-> <<"d","u","k","e"," ","u","n","i","v","e","r","s","i","t","y">>,
      factor |-> 176, max_prob |-> 214, acceptance_rate |-> 59],
     [name |-> <<"n","o","r","t","h","w","e","s","t","e","r","n"," ","u","n","i","v","e","r","s","i","t","y">>,
      factor |-> 172, max_prob |-> 212, acceptance_rate |-> 70],
     [name |-> <<"v","a","n","d","e","r","b","i","l","t"," ","u","n","i","v","e","r","s","i","t","y">>,
      factor |-> 172, max_prob |-> 212, acceptance_rate |-> 71],
     [name |-> <<"r","i","c","e"," ","u","n","i","v","e","r","s","i","t","y">>,
      factor |-> 283, max_prob |-> 286, acceptance_rate |-> 95],
     [name |-> <<"e","m","o","r","y"," ","u","n","i","v","e","r","s","i","t","y">>,
      factor |-> 258, max_prob |-> 280, acceptance_rate |-> 131],
     [name |-> <<"g","e","o","r","g","e","t","o","w","n"," ","u","n","i","v","e","r","s","i","t","y">>,
      factor |-> 266, max_prob |-> 282, acceptance_rate |-> 120],
     [name |-> <<"c","a","r","n","e","g","i","e"," ","m","e","l","l","o","n"," ","u","n","i","v","e","r","s","i","t","y">>,
      factor |-> 256, max_prob |-> 280, acceptance_rate |-> 135],
     [name |-> <<"n","e","w"," ","y","o","r","k"," ","u","n","i","v","e","r","s","i","t","y">>,
      factor |-> 259, max_prob |-> 281, acceptance_rate |-> 130],
     [name |-> <<"b","o","s","t","o","n"," ","u","n","i","v","e","r","s","i","t","y">>,
      factor |-> 400, max_prob |-> 500, acceptance_rate |-> 190]
  >>

\* name_mapping of the loader: short name, full name
name_mapping ==
  <<
     <<<<"M","I","T">>,
       <<"m","a","s","s","a","c","h","u","s","e","t","t","s"," ","i","n","s","t","i","t","u","t","e"," ","o","f"," ","t","e","c","h","n","o","l","o","g","y">>>>,
     <<<<"H","a","r","v","a","r","d">>,
       <<"h","a","r","v","a","r","d"," ","u","n","i","v","e","r","s","i","t","y">>>>,
     <<<<"S","t","a","n","f","o","r","d">>,
       <<"s","t","a","n","f","o","r","d"," ","u","n","i","v","e","r","s","i","t","y">>>>,
     <<<<"Y","a","l","e">>,
       <<"y","a","l","e"," ","u","n","i","v","e","r","s","i","t","y">>>>,
     <<<<"P","r","i","n","c","e","t","o","n">>,
       <<"p","r","i","n","c","e","t","o","n"," ","u","n","i","v","e","r","s","i","t","y">>>>,
     <<<<"C","o","l","u","m","b","i","a">>,
       <<"c","o","l","u","m","b","i","a"," ","u","n","i","v","e","r","s","i","t","y">>>>,
     <<<<"U","P","e","n","n">>,
       <<"u","n","i","v","e","r","s","i","t","y"," ","o","f"," ","p","e","n","n","s","y","l","v","a","n","i","a">>>>,
     <<<<"D","a","r","t","m","o","u","t","h">>,
       <<"d","a","r","t","m","o","u","t","h"," ","c","o","l","l","e","g","e">>>>,
     <<<<"B","r","o","w","n">>,
       <<"b","r","o","w","n"," ","u","n","i","v","e","r","s","i","t","y">>>>,
     <<<<"C","o","r","n","e","l","l">>,
       <<"c","o","r","n","e","l","l"," ","u","n","i","v","e","r","s","i","t","y">>>>,
     <<<<"D","u","k","e">>,
       <<"d","u","k","e"," ","u","n","i","v","e","r","s","i","t","y">>>>,
     <<<<"N","o","r","t","h","w","e","s","t","e","r","n">>,
       <<"n","o","r","t","h","w","e","s","t","e","r","n"," ","u","n","i","v","e","r","s","i","t","y">>>>,
     <<<<"V","a","n","d","e","r","b","i","l","t">>,
       <<"v","a","n","d","e","r","b","i","l","t"," ","u","n","i","v","e","r","s","i","t","y">>>>,
     <<<<"R","i","c","e">>,
       <<"r","i","c","e"," ","u","n","i","v","e","r","s","i","t","y">>>>,
     <<<<"E","m","o","r","y">>,
       <<"e","m","o","r","y"," ","u","n","i","v","e","r","s","i","t","y">>>>,
     <<<<"G","e","o","r","g","e","t","o","w","n">>,
       <<"g","e","o","r","g","e","t","o","w","n"," ","u","n","i","v","e","r","s","i","t","y">>>>,
     <<<<"C","M","U">>,
       <<"c","a","r","n","e","g","i","e"," ","m","e","l","l","o","n"," ","u","n","i","v","e","r","s","i","t","y">>>>,
     <<<<"N","Y","U">>,
       <<"n","e","w"," ","y","o","r","k"," ","u","n","i","v","e","r","s","i","t","y">>>>,
     <<<<"U","C","h","i","c","a","g","o">>,
       <<"u","n","i","v","e","r","s","i","t","y"," ","o","f"," ","c","h","i","c","a","g","o">>>>,
     <<<<"B","o","s","t","o","n"," ","U","n","i","v","e","r","s","i","t","y">>,
       <<"b","o","s","t","o","n"," ","u","n","i","v","e","r","s","i","t","y">>>>
  >>

\* name_mapping.get(college, college.lower())
MappedName(college) ==
  LET hits == {i \in DOMAIN name_mapping : name_mapping[i][1] = college}
  IN  IF hits = {} THEN Lower(college) ELSE name_mapping[SetMin(hits)][2]

\* elite_calibration[mapped_name] = {...}: a key already in the dict keeps
\* its position and takes the new value, a new key goes to the end
DictSet(table, item) ==
  IF \E i \in DOMAIN table : table[i].name = item.name
  THEN [i \in DOMAIN table |-> IF table[i].name = item.name THEN item ELSE table[i]]
  ELSE Append(table, item)

\* the loop over enhanced_data.items()
RECURSIVE ConvertEnhanced(_, _)
ConvertEnhanced(enhanced_data, table) ==
  IF enhanced_data = <<>> THEN table
  ELSE LET data == Head(enhanced_data)
       IN  ConvertEnhanced(Tail(enhanced_data),
                           DictSet(table, [name |-> MappedName(data.college),
                                           factor |-> data.calibration_factor,
                                           max_prob |-> data.max_probability,
                                           acceptance_rate |-> data.acceptance_rate]))

\* calibration_file is data/models/enhanced_calibration_factors.json as the
\* loader finds it: exists, readable (json.load and every key lookup
\* succeed), and the entries of the JSON object in order.
_load_elite_calibration(calibration_file) ==
  IF calibration_file.exists /\ calibration_file.readable
  THEN ConvertEnhanced(calibration_file.enhanced_data, <<>>)
  ELSE elite_calibration

\* EliteMatch with the last matching entry winning
EliteMatch_last(table, college_name) ==
  LET hits == {i \in DOMAIN table :
                 \/ Contains(table[i].name, college_name)
                 \/ Contains(college_name, table[i].name)}
  IN  IF hits = {} THEN 0 ELSE CHOOSE x \in hits : \A y \in hits : y <= x

\* Index of the first entry of the table the loop over .items() matches, 0 if none.
EliteMatch(table, college_name) ==
  LET hits == {i \in DOMAIN table :
                 \/ Contains(table[i].name, college_name)
                 \/ Contains(college_name, table[i].name)}
  IN  IF hits = {} THEN 0 ELSE SetMin(hits)

\* AdmissionPredictor._apply_elite_calibration: self_elite_calibration is
\* self.elite_calibration, probability in e5, result in e8.
\* name is college.name (not None: None.lower() raises, see PredictCalibrate).
_apply_elite_calibration(self_elite_calibration, probability, name) ==
  LET college_name == Lower(name)
      m == EliteMatch(self_elite_calibration, college_name)
  IN  IF m = 0 THEN probability * 1000
      ELSE Min(probability * self_elite_calibration[m].factor,
               self_elite_calibration[m].max_prob * 100000)

(***************************************************************************)
(* enhanced_calibration.py: _load_enhanced_elite_calibration.              *)
(* calibration_factor is in 1e-5, max_probability in 1e-6, acceptance_rate *)
(* in thousandths (the source's float literals, rounded to 6 places).      *)
(***************************************************************************)
enhanced_elite_calibration ==
  <<
     [name |-> <<"M","I","T">>,
      calibration_factor |-> 7344, max_probability |-> 97950,
      acceptance_rate |-> 41, category |-> "ultra_selective"],
     [name |-> <<"H","a","r","v","a","r","d">>,
      calibration_factor |-> 7360, max_probability |-> 98000,
      acceptance_rate |-> 40, category |-> "ultra_selective"],
     [name |-> <<"S","t","a","n","f","o","r","d">>,
      calibration_factor |-> 7360, max_probability |-> 98000,
      acceptance_rate |-> 40, category |-> "ultra_selective"],
     [name |-> <<"Y","a","l","e">>,
      calibration_factor |-> 10728, max_probability |-> 146025,
      acceptance_rate |-> 53, category |-> "highly_selective"],
     [name |-> <<"P","r","i","n","c","e","t","o","n">>,
      calibration_factor |-> 10944, max_probability |-> 146700,
      acceptance_rate |-> 44, category |-> "highly_selective"],
     [name |-> <<"C","o","l","u","m","b","i","a">>,
      calibration_factor |-> 11016, max_probability |-> 146925,
      acceptance_rate |-> 41, category |-> "highly_selective"],
     [name |-> <<"U","n","i","v","e","r","s","i","t","y"," ","o","f"," ","P","e","n","n","s","y","l","v","a","n","i","a">>,
      calibration_factor |-> 10584, max_probability |-> 145575,
      acceptance_rate |-> 59, category |-> "highly_selective"],
     [name |-> <<"D","a","r","t","m","o","u","t","h">>,
      calibration_factor |-> 10512, max_probability |-> 145350,
      acceptance_rate |-> 62, category |-> "highly_selective"],
     [name |-> <<"B","r","o","w","n">>,
      calibration_factor |-> 10680, max_probability |-> 145875,
      acceptance_rate |-> 55, category |-> "highly_selective"],
     [name |-> <<"U","n","i","v","e","r","s","i","t","y"," ","o","f"," ","C","h","i","c","a","g","o">>,
      calibration_factor |-> 10440, max_probability |-> 145125,
      acceptance_rate |-> 65, category |-> "highly_selective"],
     [name |-> <<"C","o","r","n","e","l","l">>,
      calibration_factor |-> 16520, max_probability |-> 210430,
      acceptance_rate |-> 87, category |-> "very_selective"],
     [name |-> <<"D","u","k","e">>,
      calibration_factor |-> 17640, max_probability |-> 213510,
      acceptance_rate |-> 59, category |-> "very_selective"],
     [name |-> <<"N","o","r","t","h","w","e","s","t","e","r","n">>,
      calibration_factor |-> 17200, max_probability |-> 212300,
      acceptance_rate |-> 70, category |-> "very_selective"],
     [name |-> <<"V","a","n","d","e","r","b","i","l","t">>,
      calibration_factor |-> 17160, max_probability |-> 212190,
      acceptance_rate |-> 71, category |-> "very_selective"],
     [name |-> <<"R","i","c","e">>,
      calibration_factor |-> 28350, max_probability |-> 285750,
      acceptance_rate |-> 95, category |-> "selective"],
     [name |-> <<"E","m","o","r","y">>,
      calibration_factor |-> 25830, max_probability |-> 280350,
      acceptance_rate |-> 131, category |-> "selective"],
     [name |-> <<"G","e","o","r","g","e","t","o","w","n">>,
      calibration_factor |-> 26600, max_probability |-> 282000,
      acceptance_rate |-> 120, category |-> "selective"],
     [name |-> <<"C","a","r","n","e","g","i","e"," ","M","e","l","l","o","n">>,
      calibration_factor |-> 25550, max_probability |-> 279750,
      acceptance_rate |-> 135, category |-> "selective"],
     [name |-> <<"N","e","w"," ","Y","o","r","k"," ","U","n","i","v","e","r","s","i","t","y">>,
      calibration_factor |-> 25900, max_probability |-> 280500,
      acceptance_rate |-> 130, category |-> "selective"]
  >>


\* _assess_profile_strength that needs 7 points for perfect
_assess_profile_strength_strict(student) ==
  LET truthy(x) == x # NoneVal /\ x # 0
      gpa_uw == IF truthy(student.gpa_unweighted) /\ student.gpa_unweighted >= 395 THEN 2
                ELSE IF truthy(student.gpa_unweighted) /\ student.gpa_unweighted >= 380 THEN 1
                ELSE 0
      gpa_w  == IF truthy(student.gpa_weighted) /\ student.gpa_weighted >= 430 THEN 2
                ELSE IF truthy(student.gpa_weighted) /\ student.gpa_weighted >= 400 THEN 1
                ELSE 0
      sat    == IF truthy(student.sat_total) /\ student.sat_total >= 1550 THEN 2
                ELSE IF truthy(student.sat_total) /\ student.sat_total >= 1500 THEN 1
                ELSE 0
      act    == IF truthy(student.act_composite) /\ student.act_composite >= 35 THEN 2
                ELSE IF truthy(student.act_composite) /\ student.act_composite >= 34 THEN 1
                ELSE 0
      high_factors == Cardinality({i \in DOMAIN student.factor_scores :
                                     student.factor_scores[i] >= 80})
      factor_score == IF high_factors >= 15 THEN 2
                      ELSE IF high_factors >= 10 THEN 1
                      ELSE 0
      total_score == gpa_uw + gpa_w + sat + act + factor_score
  IN  IF total_score >= 7 THEN "perfect"
      ELSE IF total_score >= 4 THEN "strong"
      ELSE IF total_score >= 2 THEN "average"
      ELSE "below_average"

\* _assess_profile_strength: gpa in hundredths, factor scores in tenths,
\* NoneVal or 0 for a metric that is missing (both are falsy in the source).
_assess_profile_strength(student) ==
  LET truthy(x) == x # NoneVal /\ x # 0
      gpa_uw == IF truthy(student.gpa_unweighted) /\ student.gpa_unweighted >= 395 THEN 2
                ELSE IF truthy(student.gpa_unweighted) /\ student.gpa_unweighted >= 380 THEN 1
                ELSE 0
      gpa_w  == IF truthy(student.gpa_weighted) /\ student.gpa_weighted >= 430 THEN 2
                ELSE IF truthy(student.gpa_weighted) /\ student.gpa_weighted >= 400 THEN 1
                ELSE 0
      gpa_score == gpa_uw + gpa_w
      sat    == IF truthy(student.sat_total) /\ student.sat_total >= 1550 THEN 2
                ELSE IF truthy(student.sat_total) /\ student.sat_total >= 1500 THEN 1
                ELSE 0
      act    == IF truthy(student.act_composite) /\ student.act_composite >= 35 THEN 2
                ELSE IF truthy(student.act_composite) /\ student.act_composite >= 34 THEN 1
                ELSE 0
      test_score == sat + act
      high_factors == Cardinality({i \in DOMAIN student.factor_scores :
                                     student.factor_scores[i] >= 80})
      factor_score == IF high_factors >= 15 THEN 2
                      ELSE IF high_factors >= 10 THEN 1
                      ELSE 0
      total_score == gpa_score + test_score + factor_score
  IN  IF total_score >= 6 THEN "perfect"
      ELSE IF total_score >= 4 THEN "strong"
      ELSE IF total_score >= 2 THEN "average"
      ELSE "below_average"

\* Index of the first entry of the enhanced table that matches, 0 if none.
EnhancedMatch(college_name) ==
  LET hits == {i \in DOMAIN enhanced_elite_calibration :
                 \/ Contains(Lower(enhanced_elite_calibration[i].name), college_name)
                 \/ Contains(college_name, Lower(enhanced_elite_calibration[i].name))}
  IN  IF hits = {} THEN 0 ELSE SetMin(hits)

\* The factor (1e-6) and the cap (nano) of an entry for a profile strength.
EnhancedFactor(entry, profile_strength) ==
  CASE profile_strength = "perfect" -> entry.calibration_factor * 12
    [] profile_strength = "strong"  -> entry.calibration_factor * 10
    [] profile_strength = "average" -> entry.calibration_factor * 7
    [] OTHER                        -> entry.calibration_factor * 5

\* EnhancedMaxProb with the factor's multipliers used for the cap
EnhancedMaxProb_loose(entry, profile_strength) ==
  CASE profile_strength = "perfect" -> entry.max_probability * 1200
    [] profile_strength = "strong"  -> entry.max_probability * 1000
    [] profile_strength = "average" -> entry.max_probability * 700
    [] OTHER                        -> entry.max_probability * 500

EnhancedMaxProb(entry, profile_strength) ==
  CASE profile_strength = "perfect" -> entry.max_probability * 1000
    [] profile_strength = "strong"  -> entry.max_probability * 800
    [] profile_strength = "average" -> entry.max_probability * 600
    [] OTHER                        -> entry.max_probability * 400

\* _apply_enhanced_elite_calibration: probability in thousandths, result in nano.
_apply_enhanced_elite_calibration(probability, name, student) ==
  LET college_name == Lower(name)
      m == EnhancedMatch(college_name)
  IN  IF m = 0 THEN probability * 1000000
      ELSE LET entry == enhanced_elite_calibration[m]
               profile_strength == _assess_profile_strength(student)
           IN  Min(probability * EnhancedFactor(entry, profile_strength),
                   EnhancedMaxProb(entry, profile_strength))

(***************************************************************************)
(* misc_features.compute_misc_uplift.  signals: flags and tiers as 0/1     *)
(* (a flag raised by the hours bucket to 0.5 is the value 1: the code only *)
(* tests its truth), counts as integers; acceptance_rate in bp or NoneVal. *)
(* The result is in e5.                                                    *)
(***************************************************************************)
compute_misc_uplift(signals, acceptance_rate) ==
  LET \* float(max(0.02, min(0.98, acceptance_rate or 0.5)))
      rate == Clip(IF acceptance_rate = NoneVal \/ acceptance_rate = 0
                   THEN 5000 ELSE acceptance_rate, 200, 9800)
      selectivity_mult == IF rate < 1000 THEN 60
                          ELSE IF rate < 2000 THEN 75
                          ELSE IF rate < 3500 THEN 90
                          ELSE 100
      flag(k, inc) == IF signals[k] # 0 THEN inc ELSE 0
      \* thousandths
      core == flag("has_research", 15) + flag("has_internship", 15)
              + flag("has_competition", 10) + flag("has_summer_program", 8)
              + flag("has_nonprofit", 8) + flag("has_work", 6)
              + flag("has_leadership", 10) + flag("has_service", 6)
      tiers == core + 20 * signals["award_tier_national"]
                    + 12 * signals["award_tier_state"]
                    + 10 * signals["award_tier_regional"]
                    + 6 * signals["award_tier_school"]
      award == IF signals["has_award"] # 0 /\ tiers < 8 THEN tiers + 8 ELSE tiers
      rigor == award + 10 * signals["has_rigor_ib"]
                     + 10 * signals["has_rigor_dual_enroll"]
                     + 8 * signals["has_rigor_cambridge"]
                     + 4 * signals["has_ap_exam"]
      strong_counts == Cardinality({k \in {"count_awards", "count_leadership",
                                          "count_service", "count_projects"} :
                                      signals[k] >= 3})
      uplift == IF strong_counts >= 2 THEN rigor + 10 ELSE rigor
      hard_cap == IF rate < 1000 THEN 6000
                  ELSE IF rate < 2500 THEN 8000
                  ELSE 10000
  IN  Min(uplift * selectivity_mult, hard_cap)

(***************************************************************************)
(* AdmissionPredictor.predict, the pure steps.                             *)
(***************************************************************************)
\* ml_confidence (e8) from ml_prob (bp): max(0.3, min(0.9, 1 - 4 p (1 - p)))
MlConfidence(ml_prob) ==
  Max(30000000, Min(90000000, 100000000 - 4 * ml_prob * (10000 - ml_prob)))

\* BlendWeights with the weights of the high and the low tier exchanged
BlendWeights_swapped(ml_confidence, use_formula) ==
  IF ~use_formula THEN <<10, 0>>
  ELSE IF ml_confidence > 70000000 THEN <<4, 6>>
  ELSE IF ml_confidence > 50000000 THEN <<5, 5>>
  ELSE <<6, 4>>

\* The blend weights in tenths, <<ml_weight, formula_weight>>.
BlendWeights(ml_confidence, use_formula) ==
  IF ~use_formula THEN <<10, 0>>
  ELSE IF ml_confidence > 70000000 THEN <<6, 4>>
  ELSE IF ml_confidence > 50000000 THEN <<5, 5>>
  ELSE <<4, 6>>

\* final_prob (e5) after the blend
Blend(ml_prob, formula_prob, ml_confidence, use_formula) ==
  IF ~use_formula THEN ml_prob * 10
  ELSE LET w == BlendWeights(ml_confidence, use_formula)
       IN  w[1] * ml_prob + w[2] * formula_prob

\* ci_width (nano) = 0.15 * (1 - ml_confidence)
CiWidth(ml_confidence) == (3 * (100000000 - ml_confidence)) \div 2

\* AdmissionPredictor.is_available
is_available(p) == Len(p.models) > 0 /\ p.scaler

(***************************************************************************)
(* Python floats.  A number the code reads from a request or a score map   *)
(* is a double: the model's n/den stands for the double nearest to it,     *)
(* M * 2^-e with 2^52 <= M < 2^53.  round() rounds the double it is given  *)
(* correctly, so at a decimal tie the result depends on the side of the    *)
(* tie on which the double lies.  The mantissas exceed the integers of the *)
(* checker; the side is computed from residues of the mantissas.           *)
(***************************************************************************)
RECURSIVE Pow2(_)
Pow2(k) == IF k = 0 THEN 1 ELSE 2 * Pow2(k - 1)

RECURSIVE Pow2Mod(_, _)
\* 2^k mod m
Pow2Mod(k, m) == IF k = 0 THEN 1 % m ELSE (2 * Pow2Mod(k - 1, m)) % m

Sign(x) == IF x > 0 THEN 1 ELSE IF x < 0 THEN -1 ELSE 0

\* the binary exponent j of n/den for n > 0: 2^j <= n/den < 2^(j+1)
Log2Ratio(n, den) ==
  IF n >= den
  THEN CHOOSE j \in 0..20 : den * Pow2(j) <= n /\ n < den * Pow2(j + 1)
  ELSE 0 - (CHOOSE i \in 1..12 : n * Pow2(i) >= den /\ n * Pow2(i - 1) < den)

\* den*M - x for the integer M nearest x/den, ties to the even M (x stands
\* for n * 2^e, known modulo a multiple of 2 * den)
NearestErr(x, den) ==
  LET r == x % den
  IN  IF 2 * r < den THEN 0 - r
      ELSE IF 2 * r > den THEN den - r
      ELSE IF (x % (2 * den)) = r THEN 0 - r ELSE den - r

\* the double M * 2^-(52 - j) from x = n * 2^(52 - j) mod modulus
DoubleRec(den, modulus, j, x) ==
  [j |-> j, e |-> 52 - j, err |-> NearestErr(x, den),
   low |-> ((x + NearestErr(x, den)) \div den) % (modulus \div den)]

\* float(n/den) for n > 0, the quotient correctly rounded, as M * 2^-e:
\* err is den*M - n*2^e (its sign is the sign of the representation error),
\* low is M mod (modulus / den); modulus is a multiple of den
DoubleOf(n, den, modulus) ==
  LET j == Log2Ratio(n, den)
  IN  DoubleRec(den, modulus, j, (n * Pow2Mod(52 - j, modulus)) % modulus)

\* float(n/100) with the low 6 bits of the mantissa
DoubleOfHundredths(n) == DoubleOf(n, 100, 6400)

(***************************************************************************)
(* Python float and int.  A natural number of any size is the sequence of  *)
(* its digits in base 2^12, least significant first, without leading zero  *)
(* digits (0 is the empty sequence).  A float is a record: kind "finite",  *)
(* "inf" or "nan", sign 1 or -1, and for a finite one the value            *)
(* sign * mant * 2^exp with mant a natural number below 2^53 + 1.  Every   *)
(* operation returns the IEEE 754 double nearest the exact result, ties to *)
(* the even mantissa, as the C double arithmetic behind float does.  A str *)
(* is the sequence of its characters, ASCII ones; an int stays within the  *)
(* 32 bits of the checker's integers.                                      *)
(***************************************************************************)
\* the digit of a at place i, 0 beyond its length
Digit(a, i) == IF i \in DOMAIN a THEN a[i] ELSE 0

\* a without leading zero digits
BigNorm(a) ==
  IF \A i \in DOMAIN a : a[i] = 0 THEN <<>>
  ELSE SubSeq(a, 1, CHOOSE i \in DOMAIN a :
                      a[i] # 0 /\ \A j \in (i + 1)..Len(a) : a[j] = 0)

\* the digits of 0 <= n < 2^31
BigOfInt(n) == BigNorm(<<n % 4096, (n \div 4096) % 4096, n \div (4096 * 4096)>>)

\* the number of a digit sequence that fits an integer of the checker
BigToInt(a) ==
  IF Len(a) <= 3 THEN Digit(a, 1) + 4096 * Digit(a, 2) + 4096 * 4096 * Digit(a, 3)
  ELSE 4096 * 4096 * 4096

\* the carry into place i of a + b + c: some lower place makes a carry and
\* every place between passes it on
CarryIn(a, b, c, i) ==
  \/ \E j \in 1..(i - 1) :
       /\ Digit(a, j) + Digit(b, j) >= 4096
       /\ \A k \in (j + 1)..(i - 1) : Digit(a, k) + Digit(b, k) = 4096 - 1
  \/ c = 1 /\ \A k \in 1..(i - 1) : Digit(a, k) + Digit(b, k) = 4096 - 1

\* a + b + c, c the carry 0 or 1
BigAdd(a, b, c) ==
  BigNorm([i \in 1..(Max(Len(a), Len(b)) + 1) |->
             (Digit(a, i) + Digit(b, i) + (IF CarryIn(a, b, c, i) THEN 1 ELSE 0)) % 4096])

\* the borrow from place i of a - b
BorrowIn(a, b, i) ==
  \E j \in 1..(i - 1) :
    /\ Digit(a, j) < Digit(b, j)
    /\ \A k \in (j + 1)..(i - 1) : Digit(a, k) = Digit(b, k)

\* a - b for a >= b
BigSub(a, b) ==
  BigNorm([i \in DOMAIN a |->
             (a[i] - Digit(b, i) - (IF BorrowIn(a, b, i) THEN 1 ELSE 0) + 4096) % 4096])

\* -1, 0, 1 as a < b, a = b, a > b
BigCmp(a, b) ==
  IF Len(a) # Len(b) THEN (IF Len(a) < Len(b) THEN -1 ELSE 1)
  ELSE IF a = b THEN 0
  ELSE IF \E i \in DOMAIN a : a[i] < b[i] /\ \A j \in (i + 1)..Len(a) : a[j] = b[j]
  THEN -1 ELSE 1

\* a * m + c for 0 <= m < 4096, 0 <= c < 4096
BigMulAdd(a, m, c) ==
  BigAdd([i \in DOMAIN a |-> (a[i] * m) % 4096],
         <<c>> \o [i \in DOMAIN a |-> (a[i] * m) \div 4096], 0)

RECURSIVE Column(_, _, _, _, _)
\* the sum of a[i] * b[k + 1 - i] for i from lo to hi (fewer than 128 terms)
Column(a, b, k, lo, hi) ==
  IF lo > hi THEN 0
  ELSE IF lo = hi THEN a[lo] * b[k + 1 - lo]
  ELSE Column(a, b, k, lo, (lo + hi) \div 2) + Column(a, b, k, (lo + hi) \div 2 + 1, hi)

Columns(a, b) ==
  [k \in 1..(Len(a) + Len(b) - 1) |->
     Column(a, b, k, Max(1, k + 1 - Len(b)), Min(Len(a), k))]

\* the sum of cols[k] * 4096^(k - 1)
SumColumns(cols) ==
  BigAdd(BigAdd([k \in DOMAIN cols |-> cols[k] % 4096],
                <<0>> \o [k \in DOMAIN cols |-> (cols[k] \div 4096) % 4096], 0),
         <<0, 0>> \o [k \in DOMAIN cols |-> cols[k] \div (4096 * 4096)], 0)

\* a * b
BigMul(a, b) == IF a = <<>> \/ b = <<>> THEN <<>> ELSE SumColumns(Columns(a, b))

RECURSIVE PowMod(_, _, _)
\* x^k mod d
PowMod(x, k, d) ==
  IF k = 0 THEN 1 % d
  ELSE IF k % 2 = 0 THEN PowMod((x * x) % d, k \div 2, d)
  ELSE (x * PowMod(x, k - 1, d)) % d

RECURSIVE BigRem(_, _, _, _)
\* the number written by the digits lo..hi of a, modulo d (d < 2^15)
BigRem(a, lo, hi, d) ==
  IF lo > hi THEN 0
  ELSE IF lo = hi THEN a[lo] % d
  ELSE (BigRem(a, (lo + hi) \div 2 + 1, hi, d)
          * PowMod(4096 % d, (lo + hi) \div 2 + 1 - lo, d)
        + BigRem(a, lo, (lo + hi) \div 2, d)) % d

\* quotient q and remainder r of a by d, 0 < d < 2^15: the long division,
\* the remainder carried into a place being that of the digits above it
BigDivMod(a, d) ==
  [q |-> BigNorm([i \in DOMAIN a |->
                    (BigRem(a, i + 1, Len(a), d) * 4096 + a[i]) \div d]),
   r |-> BigRem(a, 1, Len(a), d)]

\* a * 2^k
BigShl(a, k) ==
  IF a = <<>> THEN <<>>
  ELSE [i \in 1..(k \div 12) |-> 0]
       \o BigNorm([i \in 1..(Len(a) + 1) |->
                     ((Digit(a, i) * Pow2(k % 12)) % 4096)
                     + ((Digit(a, i - 1) * Pow2(k % 12)) \div 4096)])

\* q = a \div 2^k, lost: a is not q * 2^k
BigShr(a, k) ==
  [q |-> BigNorm([i \in 1..(Len(a) - k \div 12) |->
                    (Digit(a, i + k \div 12) \div Pow2(k % 12))
                    + (Digit(a, i + k \div 12 + 1) % Pow2(k % 12))
                      * Pow2(12 - (k % 12))]),
   lost |-> \/ \E i \in 1..Min(k \div 12, Len(a)) : a[i] # 0
            \/ (Digit(a, k \div 12 + 1) % Pow2(k % 12)) # 0]

\* the number of binary digits of a
BigBits(a) ==
  IF a = <<>> THEN 0
  ELSE 12 * (Len(a) - 1)
       + (CHOOSE k \in 1..12 : Pow2(k - 1) <= a[Len(a)] /\ a[Len(a)] < Pow2(k))

BigOdd(a) == a # <<>> /\ a[1] % 2 = 1

Square(a) == BigMul(a, a)

RECURSIVE Pow10Big(_)
\* 10^k
Pow10Big(k) ==
  IF k = 0 THEN <<1>>
  ELSE IF k % 2 = 0 THEN Square(Pow10Big(k \div 2))
  ELSE BigMulAdd(Pow10Big(k - 1), 10, 0)

Zero == [kind |-> "finite", sign |-> 1, mant |-> <<>>, exp |-> 0]
Inf(sign) == [kind |-> "inf", sign |-> sign, mant |-> <<>>, exp |-> 0]
NaN == [kind |-> "nan", sign |-> 1, mant |-> <<>>, exp |-> 0]

\* the quotient after the last dropped digit: half holds the digits down to
\* the first dropped one, lost tells whether anything lies below that
HalfEven(half, lost) ==
  IF BigOdd(half) /\ (lost \/ BigOdd(BigShr(half, 1).q))
  THEN BigAdd(BigShr(half, 1).q, <<>>, 1)
  ELSE BigShr(half, 1).q

\* n * 2^-k rounded to an integer, half to even; sticky: the number
\* rounded lies a little above n * 2^-k
RoundShift(n, k, sticky) ==
  IF k <= 0 THEN BigShl(n, 0 - k)
  ELSE HalfEven(BigShr(n, k - 1).q, BigShr(n, k - 1).lost \/ sticky)

Finite(sign, mant, exp) ==
  IF mant = <<>> THEN Zero
  ELSE IF BigBits(mant) + exp > 1024 THEN Inf(sign)
  ELSE [kind |-> "finite", sign |-> sign, mant |-> mant, exp |-> exp]

DropBits(n, exp, drop, sticky) ==
  IF drop <= 0 THEN Finite(1, n, exp)
  ELSE Finite(1, RoundShift(n, drop, sticky), exp + drop)

WithSign(x, sign) == [x EXCEPT !.sign = IF x.kind = "finite" /\ x.mant = <<>> THEN 1 ELSE sign]

\* the double nearest sign * n * 2^exp (a little above n when sticky): 53
\* binary digits, fewer below 2^-1022
RoundFloat(sign, n, exp, sticky) ==
  WithSign(DropBits(n, exp, Max(BigBits(n) - 53, (0 - 1074) - exp), sticky), sign)

\* float(n) of an int within the integers of the checker
FromInt(n) ==
  IF n < 0 THEN Finite(-1, BigOfInt(0 - n), 0) ELSE Finite(1, BigOfInt(n), 0)

IsZero(x) == x.kind = "finite" /\ x.mant = <<>>

\* the sign and digits of x.mant * 2^(x.exp - e) + y.mant * 2^(y.exp - e)
SignedSum(sx, a, sy, b) ==
  IF sx = sy THEN [sign |-> sx, n |-> BigAdd(a, b, 0)]
  ELSE IF BigCmp(a, b) >= 0 THEN [sign |-> sx, n |-> BigSub(a, b)]
  ELSE [sign |-> sy, n |-> BigSub(b, a)]

RoundSum(s, e) == RoundFloat(s.sign, s.n, e, FALSE)

\* x + y
FAdd(x, y) ==
  IF x.kind = "nan" \/ y.kind = "nan" THEN NaN
  ELSE IF x.kind = "inf"
  THEN (IF y.kind = "inf" /\ y.sign # x.sign THEN NaN ELSE x)
  ELSE IF y.kind = "inf" THEN y
  ELSE IF IsZero(x) THEN y
  ELSE IF IsZero(y) THEN x
  ELSE RoundSum(SignedSum(x.sign, BigShl(x.mant, x.exp - Min(x.exp, y.exp)),
                          y.sign, BigShl(y.mant, y.exp - Min(x.exp, y.exp))),
                Min(x.exp, y.exp))

\* x * y
FMul(x, y) ==
  IF x.kind = "nan" \/ y.kind = "nan" THEN NaN
  ELSE IF x.kind = "inf" \/ y.kind = "inf"
  THEN (IF IsZero(x) \/ IsZero(y) THEN NaN ELSE Inf(x.sign * y.sign))
  ELSE RoundFloat(x.sign * y.sign, BigMul(x.mant, y.mant), x.exp + y.exp, FALSE)

RoundQuotient(sign, dm, exp) == RoundFloat(sign, dm.q, exp, dm.r # 0)

\* x / d for an integer 0 < d < 2^15 (also x / float(d), and int / int)
FDiv(x, d) ==
  IF x.kind # "finite" THEN x
  ELSE RoundQuotient(x.sign, BigDivMod(BigShl(x.mant, 75), d), x.exp - 75)

\* -1, 0, 1 as x < y, x = y, x > y; neither is a nan
FCmp(x, y) ==
  IF x.kind = "inf" \/ y.kind = "inf"
  THEN (IF x.kind = y.kind /\ x.sign = y.sign THEN 0
        ELSE IF x.kind = "inf" THEN x.sign ELSE 0 - y.sign)
  ELSE IF IsZero(x) THEN (IF IsZero(y) THEN 0 ELSE 0 - y.sign)
  ELSE IF IsZero(y) THEN x.sign
  ELSE IF x.sign # y.sign THEN x.sign
  ELSE x.sign * BigCmp(BigShl(x.mant, x.exp - Min(x.exp, y.exp)),
                       BigShl(y.mant, y.exp - Min(x.exp, y.exp)))

\* min(x, y) and max(x, y) of Python: y when it is smaller (greater), else x
FMin(x, y) == IF y.kind # "nan" /\ x.kind # "nan" /\ FCmp(y, x) < 0 THEN y ELSE x
FMax(x, y) == IF y.kind # "nan" /\ x.kind # "nan" /\ FCmp(y, x) > 0 THEN y ELSE x

\* round(x, ndigits) of a finite x as an integer number of 10^-ndigits
\* (round gives the double nearest that decimal)
RoundDecimal(x, ndigits) ==
  x.sign * BigToInt(RoundShift(BigMul(x.mant, Pow10Big(ndigits)), 0 - x.exp, FALSE))

\* the decimal digits
DigitOf ==
  ("0" :> 0) @@ ("1" :> 1) @@ ("2" :> 2) @@ ("3" :> 3) @@ ("4" :> 4)
  @@ ("5" :> 5) @@ ("6" :> 6) @@ ("7" :> 7) @@ ("8" :> 8) @@ ("9" :> 9)

IsDigit(c) == c \in DOMAIN DigitOf

\* the characters str.strip() removes at both ends: space,
\* tab, newline, carriage return, form feed, the vertical tab 0x0b and the
\* separators 0x1c, 0x1d, 0x1e, 0x1f
Whitespace ==
  {" ", "\t", "\n", "\r", "\f", "", "", "", "", ""}

\* the characters float and int skip at both ends of an ASCII str: those of
\* str.strip() but for the four separators
NumeralWhitespace == Whitespace \ {"", "", "", ""}

\* s without the characters of cs at its ends
StripOf(s, cs) ==
  IF \A i \in DOMAIN s : s[i] \in cs THEN <<>>
  ELSE SubSeq(s, CHOOSE i \in DOMAIN s :
                   s[i] \notin cs /\ \A j \in 1..(i - 1) : s[j] \in cs,
                 CHOOSE i \in DOMAIN s :
                   s[i] \notin cs /\ \A j \in (i + 1)..Len(s) : s[j] \in cs)

\* value.strip()
Strip(s) == StripOf(s, Whitespace)

\* the numeral that float(value) and int(value) read
Numeral(value) == StripOf(value, NumeralWhitespace)

AllDigits(s) == \A i \in DOMAIN s : IsDigit(s[i])

\* an underscore is allowed between two digits only
UnderscoresOk(s) ==
  \A i \in DOMAIN s :
    s[i] = "_" => (i > 1 /\ i < Len(s) /\ IsDigit(s[i - 1]) /\ IsDigit(s[i + 1]))

\* s.replace(c, "")
Without(s, c) == LET Keep(x) == x # c IN SelectSeq(s, Keep)

\* the sign a numeral starts with, and the numeral after it
SignOf(s) == IF s # <<>> /\ Head(s) = "-" THEN -1 ELSE 1
Unsigned(s) == IF s # <<>> /\ Head(s) \in {"+", "-"} THEN Tail(s) ELSE s

RECURSIVE BigOfDigits(_)
\* the number a string of decimal digits writes
BigOfDigits(s) ==
  IF s = <<>> THEN <<>>
  ELSE IF Len(s) = 1 THEN BigOfInt(DigitOf[s[1]])
  ELSE BigAdd(BigMul(BigOfDigits(SubSeq(s, 1, Len(s) \div 2)),
                     Pow10Big(Len(s) - Len(s) \div 2)),
              BigOfDigits(SubSeq(s, Len(s) \div 2 + 1, Len(s))), 0)

RECURSIVE IntOfDigits(_)
IntOfDigits(s) ==
  IF s = <<>> THEN 0
  ELSE 10 * IntOfDigits(SubSeq(s, 1, Len(s) - 1)) + DigitOf[s[Len(s)]]

\* int(value) of a str: [ok, value]; ok is FALSE where int raises ValueError
IntOfNumeral(s) ==
  IF s # <<>> /\ AllDigits(s)
  THEN [ok |-> TRUE, value |-> IntOfDigits(s)] ELSE [ok |-> FALSE, value |-> 0]

\* int(value): surrounding whitespace, a sign, digits, single underscores
\* between digits
int(value) ==
  IF ~UnderscoresOk(Numeral(value)) THEN [ok |-> FALSE, value |-> 0]
  ELSE [IntOfNumeral(Without(Unsigned(Numeral(value)), "_"))
          EXCEPT !.value = SignOf(Numeral(value)) * @]

\* the exponent of a numeral, cut off at 100000, where every float is 0.0
\* or inf
RECURSIVE ExponentOfDigits(_)
ExponentOfDigits(s) ==
  IF s = <<>> THEN 0
  ELSE Min(100000, 10 * ExponentOfDigits(SubSeq(s, 1, Len(s) - 1)) + DigitOf[s[Len(s)]])

\* the position of the first character of s that is in cs, 0 without one
FirstOf(s, cs) ==
  IF \E i \in DOMAIN s : s[i] \in cs
  THEN CHOOSE i \in DOMAIN s : s[i] \in cs /\ \A j \in 1..(i - 1) : s[j] \notin cs
  ELSE 0

Before(s, i) == IF i = 0 THEN s ELSE SubSeq(s, 1, i - 1)
After(s, i) == IF i = 0 THEN <<>> ELSE SubSeq(s, i + 1, Len(s))

LowerAscii(c) ==
  CASE c = "I" -> "i" [] c = "N" -> "n" [] c = "F" -> "f" [] c = "T" -> "t"
    [] c = "Y" -> "y" [] c = "A" -> "a" [] OTHER -> c

RECURSIVE DivPow10(_, _)

AlsoLost(quotient, r) == [q |-> quotient.q, r |-> quotient.r + r]

\* the quotient of first.q by 10^k, a remainder lost before kept in mind
ThenDivPow10(first, k) ==
  IF first.q = <<>> THEN first ELSE AlsoLost(DivPow10(first.q, k), first.r)

\* quotient q of n by 10^k, r = 0 exactly when nothing remains
DivPow10(n, k) ==
  IF k <= 4 THEN BigDivMod(n, BigToInt(Pow10Big(k)))
  ELSE ThenDivPow10(DivPow10(n, k \div 2), k - k \div 2)

\* digits times 10^exp10 as the nearest double (exp10 < 0: the quotient
\* by 10^-exp10, taken with enough binary digits)
Decimal(sign, digits, exp10) ==
  IF digits = <<>> THEN Zero
  ELSE IF exp10 > 400 THEN Inf(sign)
  ELSE IF exp10 >= 0
  THEN RoundFloat(sign, BigMul(digits, Pow10Big(exp10)), 0, FALSE)
  ELSE IF BigBits(digits) + 3 * exp10 < 0 - 1080 THEN Zero
  ELSE RoundQuotient(sign, DivPow10(BigShl(digits, 64 - 4 * exp10), 0 - exp10),
                     4 * exp10 - 64)

\* the mantissa "int.frac" and the exponent of a numeral without sign
NumeralParts(s) ==
  [int  |-> Before(Before(s, FirstOf(s, {"e", "E"})), FirstOf(Before(s, FirstOf(s, {"e", "E"})), {"."})),
   frac |-> After(Before(s, FirstOf(s, {"e", "E"})), FirstOf(Before(s, FirstOf(s, {"e", "E"})), {"."})),
   has_exp |-> FirstOf(s, {"e", "E"}) # 0,
   exp  |-> After(s, FirstOf(s, {"e", "E"}))]

NumeralOk(p) ==
  /\ AllDigits(p.int) /\ AllDigits(p.frac)
  /\ p.int # <<>> \/ p.frac # <<>>
  /\ p.has_exp => (Unsigned(p.exp) # <<>> /\ AllDigits(Unsigned(p.exp)))

NumeralValue(sign, p) ==
  Decimal(sign, BigOfDigits(p.int \o p.frac),
          SignOf(p.exp) * ExponentOfDigits(Unsigned(p.exp)) - Len(p.frac))

FloatOfParts(sign, p) ==
  IF NumeralOk(p) THEN [ok |-> TRUE, value |-> NumeralValue(sign, p)]
  ELSE [ok |-> FALSE, value |-> Zero]

FloatOfNumeral(sign, s) ==
  IF [i \in DOMAIN s |-> LowerAscii(s[i])] \in {<<"i","n","f">>, <<"i","n","f","i","n","i","t","y">>}
  THEN [ok |-> TRUE, value |-> Inf(sign)]
  ELSE IF [i \in DOMAIN s |-> LowerAscii(s[i])] = <<"n","a","n">>
  THEN [ok |-> TRUE, value |-> NaN]
  ELSE FloatOfParts(sign, NumeralParts(s))

\* float(value) of a str: [ok, value]; ok is FALSE where float raises ValueError
float(value) ==
  IF ~UnderscoresOk(Numeral(value)) THEN [ok |-> FALSE, value |-> Zero]
  ELSE FloatOfNumeral(SignOf(Numeral(value)), Without(Unsigned(Numeral(value)), "_"))

(***************************************************************************)
(* AdmissionPredictor.predict: the acceptance-rate-aware calibration, in   *)
(* doubles.  final_prob (e8) and the rate (bp) stand for the doubles       *)
(* nearest to them; the result is written in nano.                         *)
(***************************************************************************)
\* the acceptance rate with its default but without the clip to [0.02, 0.98]
ReconcileRate_unclipped(acceptance_rate) ==
  IF acceptance_rate = NoneVal THEN 5000 ELSE acceptance_rate

\* The acceptance rate (bp) the reconciliation works with.
ReconcileRate(acceptance_rate) ==
  Clip(IF acceptance_rate = NoneVal THEN 5000 ELSE acceptance_rate, 200, 9800)

\* the doubles of the literals 0.98, 0.35, 0.02, 0.3 and 0.7
Literal098 == float(<<"0",".","9","8">>).value
Literal035 == float(<<"0",".","3","5">>).value
Literal002 == float(<<"0",".","0","2">>).value
Literal03 == float(<<"0",".","3">>).value
Literal07 == float(<<"0",".","7">>).value

\* the double nearest to n * 10^-places
DoubleOfDecimal(n, places) == Decimal(1, BigOfInt(n), 0 - places)

\* max_allowed, min_allowed and blended_prob for final_prob (e8) and the
\* clipped rate (bp)
MaxAllowed(rate) == FMin(Literal098, FAdd(DoubleOfDecimal(rate, 4), Literal035))
MinAllowed(rate) == FMax(Literal002, FMul(DoubleOfDecimal(rate, 4), Literal03))
BlendedProb(final_prob, rate) ==
  FAdd(FMul(DoubleOfDecimal(final_prob, 8), Literal07),
       FMul(DoubleOfDecimal(rate, 4), Literal03))

\* the numbers of nano that these three doubles are nearest to: each double
\* lies within 1e-15 of the exact result, a whole number of nano
MaxAllowedNano(rate) == Min(980000000, (rate + 3500) * 100000)
MinAllowedNano(rate) == Max(20000000, rate * 3 * 10000)
BlendedProbNano(final_prob, rate) == final_prob * 7 + rate * 3 * 10000

\* blended_prob against a bound, -1, 0 or 1 for below, equal, above: doubles
\* nearest to different numbers of nano compare as those numbers do, doubles
\* nearest to the same number as their rounding has left them
CompareBlended(final_prob, rate, bound_nano, bound) ==
  IF BlendedProbNano(final_prob, rate) < bound_nano THEN 0 - 1
  ELSE IF BlendedProbNano(final_prob, rate) > bound_nano THEN 1
  ELSE FCmp(BlendedProb(final_prob, rate), bound)

\* the branch of the if / elif / else that sets final_prob
ReconcileBranch(final_prob, rate) ==
  IF CompareBlended(final_prob, rate, MaxAllowedNano(rate), MaxAllowed(rate)) > 0
  THEN "max_allowed"
  ELSE IF CompareBlended(final_prob, rate, MinAllowedNano(rate), MinAllowed(rate)) < 0
  THEN "min_allowed"
  ELSE "blended_prob"

\* Reconcile with the former margin of 0.25 above the acceptance rate
Reconcile_margin25(final_prob, acceptance_rate) ==
  LET rate == ReconcileRate(acceptance_rate)
      max_allowed == Min(980000000, (rate + 2500) * 100000)
  IN  IF BlendedProbNano(final_prob, rate) > max_allowed THEN max_allowed
      ELSE IF ReconcileBranch(final_prob, rate) = "min_allowed"
      THEN MinAllowedNano(rate)
      ELSE Min(max_allowed, BlendedProbNano(final_prob, rate))

\* Acceptance-rate-aware calibration: final_prob in e8, rate in bp, result in nano.
Reconcile(final_prob, acceptance_rate) ==
  LET rate == ReconcileRate(acceptance_rate)
      branch == ReconcileBranch(final_prob, rate)
  IN  IF branch = "max_allowed" THEN MaxAllowedNano(rate)
      ELSE IF branch = "min_allowed" THEN MinAllowedNano(rate)
      ELSE BlendedProbNano(final_prob, rate)

(***************************************************************************)
(* The fallback of POST /predict and the rounding at the API boundary.     *)
(***************************************************************************)
\* round(x, 4) of a double whose exact value is x nano; side is the sign of
\* the double minus x (0: the double is x).  Off a tie the side does not
\* matter; on a tie it decides, and an exact tie goes to the even digit.
Round4(x, side) ==
  LET q == x \div 100000
      r == x % 100000
  IN  IF r > 50000 \/ (r = 50000 /\ (side > 0 \/ (side = 0 /\ q % 2 = 1)))
      THEN (q + 1) * 100000
      ELSE q * 100000

\* safe_float / safe_int of main.py on a numeric or missing value
safe_num(value) == IF value = NoneVal THEN 0 ELSE value

\* The doubles of the fallback, each as [e, low, num, den]: the double is
\* M * 2^-e, low is M mod 2^12, and the double minus the exact quotient of
\* the request's numbers is num / (den * 2^e).
\* numer/16 for 0 < numer <= 16, which a double holds exactly
ExactDouble(numer) ==
  [e |-> 52 - Log2Ratio(numer, 16), low |-> 0, num |-> 0, den |-> 1]

\* gpa_unweighted / 4.0 (gpa in hundredths, 0 < gpa < 400): the division by
\* a power of two is exact
GpaOver4(gpa) ==
  LET d == DoubleOf(gpa, 100, 409600)
  IN  [e |-> d.e + 2, low |-> d.low, num |-> d.err, den |-> 100]

\* d / 5.0 for the double d of gpa / 100, d.low being M mod 5 * 2^12
DoubleOver5(gpa, d) ==
  LET s == IF (IF d.j >= 0 THEN gpa < 125 * Pow2(d.j) ELSE gpa * Pow2(0 - d.j) < 125)
           THEN 3 ELSE 2
      scaled == (d.low * Pow2(s)) % 20480       \* M * 2^s mod 5 * 2^12
      errq == NearestErr(scaled, 5)
  IN  [e |-> d.e + s, low |-> ((scaled + errq) \div 5) % 4096,
       num |-> d.err * Pow2(s) + 100 * errq, den |-> 500]

\* gpa_weighted / 5.0 (0 < gpa < 500): the quotient M/5 is rounded to 53
\* bits; it has 3 bits more than M/8 when the mantissa is below 1.25 * 2^52
GpaOver5(gpa) == DoubleOver5(gpa, DoubleOf(gpa, 100, 2048000))

\* (sat_score - 1200) / 400 for 0 < k < 400: int / int is correctly rounded
SatOver400(k) ==
  LET d == DoubleOf(k, 400, 1638400)
  IN  [e |-> d.e, low |-> d.low, num |-> d.err, den |-> 400]

\* The sign of float(a + b) minus the exact sum, for doubles a, b > 0 whose
\* exact sum is sum_nano (nano): the mantissas are aligned to the smaller
\* unit, added, and the sum is rounded to 53 bits (ties to even).
SumSide(a, b, sum_nano) ==
  LET E == Max(a.e, b.e)
      p == IF sum_nano >= 1000000000 THEN (IF sum_nano >= 2000000000 THEN 1 ELSE 0)
           ELSE 0 - (CHOOSE i \in 1..9 : /\ sum_nano >= 1000000000 \div Pow2(i)
                                          /\ sum_nano < 1000000000 \div Pow2(i - 1))
      u == p + E - 52                      \* bits of the sum beyond 53
      z == a.low * Pow2(E - a.e) + b.low * Pow2(E - b.e)
      y == IF u <= 0 THEN 0 ELSE z % Pow2(u)
      odd == u > 0 /\ (z % Pow2(u + 1)) >= Pow2(u)
      half == IF u <= 0 THEN 0 ELSE Pow2(u) \div 2
      round == IF u <= 0 THEN 0
               ELSE IF y < half \/ (y = half /\ ~odd) THEN 0 - y
               ELSE Pow2(u) - y
  IN  Sign(2000 * round
           + a.num * (2000 \div a.den) * Pow2(E - a.e)
           + b.num * (2000 \div b.den) * Pow2(E - b.e))

\* predict_admission, except branch: the deterministic probability (nano)
\* from gpa (hundredths), sat and act.
deterministic_fallback(student) ==
  LET gpa_unweighted == safe_num(student.gpa_unweighted)
      gpa_weighted   == safe_num(student.gpa_weighted)
      sat_score      == safe_num(student.sat_total)
      act_score      == safe_num(student.act_composite)
      \* min(1.0, gpa / 4.0) and the like, the clamp taken before the scaling
      gpa_score  == IF gpa_unweighted > 0 THEN Min(400, gpa_unweighted) * 2500000
                    ELSE IF gpa_weighted > 0 THEN Min(500, gpa_weighted) * 2000000
                    ELSE 500000000
      test_score == IF sat_score > 0
                    THEN Min(400, Max(0, sat_score - 1200)) * 2500000
                    ELSE IF act_score > 0
                    THEN Min(16, Max(0, act_score - 20)) * 62500000
                    ELSE 500000000
      \* the doubles gpa_score and test_score (test_score may be 0.0)
      gpa_double  == IF gpa_unweighted > 0
                     THEN (IF gpa_unweighted >= 400 THEN ExactDouble(16)
                           ELSE GpaOver4(gpa_unweighted))
                     ELSE IF gpa_weighted > 0
                     THEN (IF gpa_weighted >= 500 THEN ExactDouble(16)
                           ELSE GpaOver5(gpa_weighted))
                     ELSE ExactDouble(8)
      test_double == IF sat_score > 0
                     THEN (IF sat_score >= 1600 THEN ExactDouble(16)
                           ELSE SatOver400(sat_score - 1200))
                     ELSE IF act_score > 0
                     THEN ExactDouble(Min(16, act_score - 20))
                     ELSE ExactDouble(8)
      deterministic_prob == (gpa_score + test_score) \div 2
      clamped == Max(20000000, Min(850000000, deterministic_prob))
      \* the side of (gpa_score + test_score) / 2.0, needed at a tie only
      side == IF clamped # deterministic_prob \/ clamped % 100000 # 50000 THEN 0
              ELSE IF test_score = 0 THEN Sign(gpa_double.num)
              ELSE SumSide(gpa_double, test_double, gpa_score + test_score)
  IN  Round4(clamped, side)

(***************************************************************************)
(* core/scoring.py.  A factor score is in tenths (8.0 is 80), None is      *)
(* NoneVal; a weight is in fortieths (25.0 is 1000, 0.5 is 20), so that    *)
(* 0.85 x weight stays an integer; weighted_sum is in 1/400; composite is  *)
(* in hundredths (1000.0 is 100000).  A score map is a function from the   *)
(* keys it holds to their values.                                          *)
(***************************************************************************)
\* FACTOR_WEIGHTS.keys() in dict order.  core/weights.py is not part of the
\* examined source: the factors, their order and their weights are the ones
\* profile_to_factor_scores enumerates (calculations.py, "1. GPA (25%)" ...
\* "20. High School Reputation (2%)").
FactorOrder ==
  << "grades", "rigor", "testing", "essay", "recommendations", "interview",
     "ecs_leadership", "plan_timing", "major_fit", "demonstrated_interest",
     "athletic_recruit", "portfolio_audition", "geography_residency",
     "firstgen_diversity", "ability_to_pay", "awards_publications",
     "policy_knob", "legacy", "conduct_record", "hs_reputation" >>

FactorKeys == {FactorOrder[i] : i \in DOMAIN FactorOrder}

\* weights in fortieths
FACTOR_WEIGHTS ==
  [f \in FactorKeys |->
     CASE f = "grades" -> 1000
       [] f = "rigor" -> 480
       [] f \in {"testing", "essay"} -> 320
       [] f = "ecs_leadership" -> 300
       [] f \in {"recommendations", "plan_timing", "athletic_recruit"} -> 160
       [] f \in {"major_fit", "geography_residency", "firstgen_diversity",
                 "ability_to_pay"} -> 120
       [] f \in {"portfolio_audition", "awards_publications", "policy_knob",
                 "hs_reputation"} -> 80
       [] f \in {"demonstrated_interest", "legacy"} -> 60
       [] f = "interview" -> 40
       [] f = "conduct_record" -> 20]

\* CLUSTER_FACTORS: the achievement/leadership-correlated factors (also from
\* core/weights.py)
CLUSTER_FACTORS == <<"ecs_leadership", "awards_publications", "portfolio_audition">>

InSeq(x, s) == \E i \in DOMAIN s : s[i] = x

\* scores.get(factor, default)
Get(scores, factor, default) ==
  IF factor \in DOMAIN scores THEN scores[factor] ELSE default

RECURSIVE SumOver(_, _)
\* sum(g[k] for k in S)
SumOver(S, g) ==
  IF S = {} THEN 0
  ELSE LET k == CHOOSE x \in S : TRUE IN g[k] + SumOver(S \ {k}, g)

\* with_defaults that fills a missing score with 0
with_defaults_zero(scores, policy, treat_missing_as_neutral) ==
  [factor \in FactorKeys |->
     LET value == Get(scores, factor, NoneVal)
         filled == IF value = NoneVal /\ treat_missing_as_neutral THEN 0 ELSE value
     IN  IF factor = "testing" /\ ~policy.uses_testing THEN NoneVal
         ELSE IF factor = "ability_to_pay" /\ ~policy.need_aware THEN NoneVal
         ELSE filled]

\* with_defaults(scores, policy, treat_missing_as_neutral)
with_defaults(scores, policy, treat_missing_as_neutral) ==
  [factor \in FactorKeys |->
     LET value == Get(scores, factor, NoneVal)
         filled == IF value = NoneVal /\ treat_missing_as_neutral THEN 50 ELSE value
     IN  IF factor = "testing" /\ ~policy.uses_testing THEN NoneVal
         ELSE IF factor = "ability_to_pay" /\ ~policy.need_aware THEN NoneVal
         ELSE filled]

\* cluster dampening that reduces the weights of the high scorers only
apply_cluster_dampening_high_only(scores, weights) ==
  LET high_scorers == SelectSeq(CLUSTER_FACTORS, LAMBDA f : Get(scores, f, 0) >= 80)
  IN  IF Len(high_scorers) < 2
      THEN [weights |-> weights, note |-> <<"None">>]
      ELSE [weights |-> [f \in DOMAIN weights |->
                           IF InSeq(f, high_scorers)
                           THEN (weights[f] * 85) \div 100 ELSE weights[f]],
            note |-> <<"cluster_dampened_15pct">> \o high_scorers]

\* apply_cluster_dampening(scores, weights): the pair (weights, note); the
\* note is the prefix followed by the joined factors, None is <<"None">>
apply_cluster_dampening(scores, weights) ==
  LET high_scorers == SelectSeq(CLUSTER_FACTORS, LAMBDA f : Get(scores, f, 0) >= 80)
  IN  IF Len(high_scorers) < 2
      THEN [weights |-> weights, note |-> <<"None">>]
      ELSE [weights |-> [f \in DOMAIN weights |->
                           IF InSeq(f, CLUSTER_FACTORS)
                           THEN (weights[f] * 85) \div 100 ELSE weights[f]],
            note |-> <<"cluster_dampened_15pct">> \o high_scorers]

\* clamp_score(x) = max(0.0, min(10.0, x))
clamp_score(x) == Max(0, Min(100, x))

\* every factor counted as active
active_factors_all(scores) == [f \in DOMAIN scores |-> FACTOR_WEIGHTS[f]]

\* compute_composite, step 2: the weights of the factors whose score is not None
active_factors(scores) ==
  [f \in {k \in DOMAIN scores : scores[k] # NoneVal} |-> FACTOR_WEIGHTS[f]]

\* the scores of the active factors left as they are
clamped_scores_raw(scores, active) == [f \in DOMAIN active |-> scores[f]]

\* compute_composite, step 3: the clamped scores of the active factors
clamped_scores(scores, active) == [f \in DOMAIN active |-> clamp_score(scores[f])]

\* compute_composite normalised by the weights of the whole factor universe
compute_composite_allweights(raw_scores, policy) ==
  LET scores == with_defaults(raw_scores, policy, TRUE)
      active == active_factors(scores)
      clamped == clamped_scores(scores, active)
      dampened == apply_cluster_dampening(clamped, active)
      effective_weights == dampened.weights
      weighted_sum == SumOver(DOMAIN effective_weights,
                              [f \in DOMAIN effective_weights |->
                                 clamped[f] * effective_weights[f]])
      sum_weights == SumOver(FactorKeys, FACTOR_WEIGHTS)
  IN  [composite |-> (weighted_sum * 1000) \div sum_weights,
       sum_weights |-> sum_weights,
       used_factors |-> SelectSeq(FactorOrder,
                                  LAMBDA f : f \in DOMAIN effective_weights),
       cluster_note |-> dampened.note]

\* compute_composite(raw_scores, policy): the ScoringResult
compute_composite(raw_scores, policy) ==
  LET scores == with_defaults(raw_scores, policy, TRUE)
      active == active_factors(scores)
      clamped == clamped_scores(scores, active)
      dampened == apply_cluster_dampening(clamped, active)
      effective_weights == dampened.weights
      weighted_sum == SumOver(DOMAIN effective_weights,
                              [f \in DOMAIN effective_weights |->
                                 clamped[f] * effective_weights[f]])
      sum_weights == SumOver(DOMAIN effective_weights, effective_weights)
  IN  [composite |-> (weighted_sum * 1000) \div sum_weights,
       sum_weights |-> sum_weights,
       used_factors |-> SelectSeq(FactorOrder,
                                  LAMBDA f : f \in DOMAIN effective_weights),
       cluster_note |-> dampened.note]

\* the conduct penalty without the floor at 0
apply_conduct_penalty_unfloored(composite, conduct_score) ==
  IF conduct_score = NoneVal \/ conduct_score >= 50 THEN composite
  ELSE composite - (50 - conduct_score) * 80

\* apply_conduct_penalty(composite, conduct_score): composite in hundredths,
\* conduct_score in tenths or NoneVal
apply_conduct_penalty(composite, conduct_score) ==
  IF conduct_score = NoneVal \/ conduct_score >= 50 THEN composite
  ELSE Max(0, composite - (50 - conduct_score) * 80)

(***************************************************************************)
(* core/audit.py.  build_audit takes the scores in hundredths (8.25 is     *)
(* 825), so that the rounding of the rows is visible; a row holds the      *)
(* weight in fortieths, score_0_to_10 in tenths and weighted_contribution  *)
(* in hundredths; a None field is NoneVal, a None note is "None".          *)
(***************************************************************************)
\* round(score, 1) of a score in hundredths, in tenths
RoundScore(score) ==
  LET n == IF score < 0 THEN 0 - score ELSE score
      q == n \div 10
      r == n % 10
      err == IF n = 0 THEN 0 ELSE DoubleOfHundredths(n).err
      up == r > 5 \/ (r = 5 /\ (err > 0 \/ (err = 0 /\ q % 2 = 1)))
      rounded == IF up THEN q + 1 ELSE q
  IN  IF score < 0 THEN 0 - rounded ELSE rounded

\* The odd part of a weight: weight = OddPart * 2^k (weights are multiples
\* of 0.5, that is of 20 fortieths)
RECURSIVE OddPart(_)
OddPart(w) == IF w % 2 = 0 THEN OddPart(w \div 2) ELSE w

\* the number t of bits the product M * m has beyond 53, M the mantissa of
\* d = float(n/100)
ProductBits(n, m, d) ==
  LET scaled == IF d.j >= 0 THEN m * n ELSE m * n * Pow2(0 - d.j)
      unit   == IF d.j >= 0 THEN 100 * Pow2(d.j) ELSE 100
      AtLeast(t) == \/ scaled > unit * Pow2(t)
                    \/ (scaled = unit * Pow2(t) /\ d.err >= 0)
  IN  CHOOSE k \in 0..5 : AtLeast(k) /\ ~AtLeast(k + 1)

\* 100 * 2^e times the error of the product rounded to 53 bits (t bits
\* dropped, ties to even) plus that of d times m
ProductErr(m, d, t) ==
  LET y == (d.low * m) % Pow2(t)
      odd == ((d.low * m) % Pow2(t + 1)) >= Pow2(t)
      half == Pow2(t) \div 2
      b == IF t = 0 THEN 0
           ELSE IF y < half \/ (y = half /\ ~odd /\ t > 0) THEN 0 - y
           ELSE Pow2(t) - y
  IN  100 * b + m * d.err

\* The side of the exact product n/100 * weight on which the double
\* float(n/100) * weight lies (positive: above), for n > 0.  The product of
\* the mantissa M with the odd part m of the weight is rounded to 53 bits.
ProductSide(n, weight) ==
  LET d == DoubleOfHundredths(n)
      m == OddPart(weight) \div 5
  IN  ProductErr(m, d, ProductBits(n, m, d))

\* round(score * weight, 2) of a score in hundredths and a weight in
\* fortieths, in hundredths
RoundContribution(score, weight) ==
  LET n == IF score < 0 THEN 0 - score ELSE score
      contribution == n * weight
      q == contribution \div 40
      r == contribution % 40
      side == IF r = 20 THEN ProductSide(n, weight) ELSE 0
      up == r > 20 \/ (r = 20 /\ (side > 0 \/ (side = 0 /\ q % 2 = 1)))
      rounded == IF up THEN q + 1 ELSE q
  IN  IF score < 0 THEN 0 - rounded ELSE rounded

\* the row of a factor that is not in used_factors
GatedRow(factor) ==
  [factor |-> factor, weight |-> FACTOR_WEIGHTS[factor],
   score_0_to_10 |-> NoneVal, weighted_contribution |-> NoneVal,
   note |-> "policy-gated (not used)"]

\* the row of a used factor, built from the score as supplied
UsedRow_unclamped(scores, factor) ==
  LET score_value == Get(scores, factor, NoneVal)
      score == IF score_value # NoneVal THEN score_value ELSE 500
  IN  [factor |-> factor, weight |-> FACTOR_WEIGHTS[factor],
       score_0_to_10 |-> RoundScore(score),
       weighted_contribution |-> RoundContribution(score, FACTOR_WEIGHTS[factor]),
       note |-> IF score = 500 /\ factor \notin DOMAIN scores
                THEN "neutral default (no data)"
                ELSE IF score >= 900 THEN "exceptional strength"
                ELSE IF score <= 300 THEN "area of concern"
                ELSE "None"]

\* the row of a used factor: default 5.0, clamp, contribution with the
\* FACTOR_WEIGHTS weight, note
UsedRow(scores, factor) ==
  LET score_value == Get(scores, factor, NoneVal)
      score == Max(0, Min(1000, IF score_value # NoneVal THEN score_value ELSE 500))
  IN  [factor |-> factor, weight |-> FACTOR_WEIGHTS[factor],
       score_0_to_10 |-> RoundScore(score),
       weighted_contribution |-> RoundContribution(score, FACTOR_WEIGHTS[factor]),
       note |-> IF score = 500 /\ factor \notin DOMAIN scores
                THEN "neutral default (no data)"
                ELSE IF score >= 900 THEN "exceptional strength"
                ELSE IF score <= 300 THEN "area of concern"
                ELSE "None"]

\* build_audit(scores, used_factors, policy_notes): one AuditRow per factor
\* of FACTOR_WEIGHTS, in its order
build_audit(scores, used_factors, policy_notes) ==
  [i \in DOMAIN FactorOrder |->
     IF ~InSeq(FactorOrder[i], used_factors) THEN GatedRow(FactorOrder[i])
     ELSE UsedRow(scores, FactorOrder[i])]

RECURSIVE InsertByScore(_, _)
\* the sorted list with the row inserted after every row whose score is not
\* smaller (sorted(..., reverse=True) is stable)
InsertByScore(sorted, row) ==
  IF sorted = <<>> THEN <<row>>
  ELSE IF Head(sorted).score_0_to_10 >= row.score_0_to_10
       THEN <<Head(sorted)>> \o InsertByScore(Tail(sorted), row)
       ELSE <<row>> \o sorted

RECURSIVE SortedByScore(_)
\* sorted(used_rows, key=score, reverse=True)
SortedByScore(rows) ==
  IF rows = <<>> THEN <<>>
  ELSE InsertByScore(SortedByScore(SubSeq(rows, 1, Len(rows) - 1)), rows[Len(rows)])

\* s[:n] and s[-n:] of Python for n >= 0 (s[-0:] is s[0:], the whole list)
SliceFirst(s, n) == SubSeq(s, 1, Min(n, Len(s)))
SliceLast(s, n) == IF n = 0 THEN s ELSE SubSeq(s, Max(1, Len(s) - n + 1), Len(s))

\* f"{row.factor} ({row.score_0_to_10}/10)" as the pair it is formatted from
Formatted(row) == <<row.factor, row.score_0_to_10>>

\* the formatted entries of a list of rows
FormatAll(s) == [i \in DOMAIN s |-> Formatted(s[i])]

\* identify_strengths_and_weaknesses(audit_rows, top_n)
identify_strengths_and_weaknesses(audit_rows, top_n) ==
  LET used_rows == SelectSeq(audit_rows, LAMBDA row : row.score_0_to_10 # NoneVal)
      sorted_by_score == SortedByScore(used_rows)
  IN  [strengths |-> FormatAll(SelectSeq(SliceFirst(sorted_by_score, top_n),
                                         LAMBDA row : row.score_0_to_10 >= 70)),
       weaknesses |-> FormatAll(SelectSeq(SliceLast(sorted_by_score, top_n),
                                          LAMBDA row : row.score_0_to_10 <= 60))]

(***************************************************************************)
(* Inputs.                                                                 *)
(***************************************************************************)
ProbGrid == {(i * 10000) \div GridN : i \in 0..GridN}

\* what the formula mapper may return (bp)
FormulaProbs == ProbGrid \cup {150}
\* what predict_proba may return (bp)
MLProbs == ProbGrid \cup {1000}
\* college.acceptance_rate (bp), None included
AcceptanceRates == ProbGrid \cup {400, NoneVal}

NoneName == <<"None">>

CollegeNames ==
  { <<"H","a","r","v","a","r","d"," ","U","n","i","v","e","r","s","i","t","y">>,
    <<"U","n","i","v","e","r","s","i","t","y">>,
    <<"B","R","O","W","N">>,
    <<"M","I","T">>,
    <<"R","i","c","e"," ","U","n","i","v","e","r","s","i","t","y">>,
    <<"S","t","a","t","e"," ","C","o","l","l","e","g","e">>,
    <<"T","U","F","T","S">>,
    <<"É","m","o","r","y">>,
    <<>> }

\* the names predict is called with
PredictNames ==
  { <<"H","a","r","v","a","r","d"," ","U","n","i","v","e","r","s","i","t","y">>,
    <<"U","n","i","v","e","r","s","i","t","y">>,
    <<"S","t","a","t","e"," ","C","o","l","l","e","g","e">>,
    NoneName }

Colleges ==
  [name : PredictNames, acceptance_rate : AcceptanceRates,
   test_policy : {"Required"}, financial_aid_policy : {"Need-blind"}]
  \cup
  [name : {<<"S","t","a","t","e"," ","C","o","l","l","e","g","e">>},
   acceptance_rate : {5000},
   test_policy : {"Blind", "Test-blind"}, financial_aid_policy : {"Need-aware"}]

ManyFactors(n, score) == [i \in 1..20 |-> IF i <= n THEN score ELSE 50]

Students ==
  { [gpa_unweighted |-> 400, gpa_weighted |-> 450, sat_total |-> 1600,
     act_composite |-> NoneVal, factor_scores |-> ManyFactors(16, 90)],
    [gpa_unweighted |-> 390, gpa_weighted |-> 430, sat_total |-> 1500,
     act_composite |-> 0, factor_scores |-> ManyFactors(9, 80)],
    [gpa_unweighted |-> 380, gpa_weighted |-> 400, sat_total |-> NoneVal,
     act_composite |-> 30, factor_scores |-> ManyFactors(3, 85)],
    \* (3.8 / 5.0 + 5 / 16) / 2.0 is a double just above the tie 0.53625
    [gpa_unweighted |-> 0, gpa_weighted |-> 380, sat_total |-> 0,
     act_composite |-> 25, factor_scores |-> ManyFactors(0, 50)] }

SignalKeys ==
  {"has_internship", "has_research", "has_competition", "has_summer_program",
   "has_nonprofit", "has_work", "has_leadership", "has_service", "has_award",
   "award_tier_national", "award_tier_state", "award_tier_regional",
   "award_tier_school", "has_rigor_ib", "has_rigor_dual_enroll",
   "has_rigor_cambridge", "has_ap_exam", "count_testing", "count_academics",
   "count_awards", "count_leadership", "count_service", "count_work",
   "count_projects"}

NoSignals == [k \in SignalKeys |-> 0]

\* misc_items, given by the signals extract_misc_signals derives from them;
\* "none" is None or an empty list, "malformed" a list extract_misc_signals
\* raises on (an item that is not a string).
MiscItems ==
  { [kind |-> "none", signals |-> NoSignals],
    [kind |-> "malformed", signals |-> NoSignals],
    [kind |-> "items",
     signals |-> [NoSignals EXCEPT !["has_research"] = 1, !["has_award"] = 1,
                                   !["award_tier_national"] = 1,
                                   !["count_awards"] = 3, !["count_projects"] = 4]] }

\* data/models/enhanced_calibration_factors.json as the loader may find it.
\* The repository holds no such file; "factors" has one entry that
\* name_mapping renames and one that is lowercased (values in thousandths).
CalibrationFiles ==
  [absent |-> [exists |-> FALSE, readable |-> FALSE, enhanced_data |-> <<>>],
   unreadable |-> [exists |-> TRUE, readable |-> FALSE, enhanced_data |-> <<>>],
   factors |->
     [exists |-> TRUE, readable |-> TRUE,
      enhanced_data |->
        << [college |-> <<"H","a","r","v","a","r","d">>, calibration_factor |-> 80,
            max_probability |-> 100, acceptance_rate |-> 40],
           [college |-> <<"T","u","f","t","s">>, calibration_factor |-> 300,
            max_probability |-> 300, acceptance_rate |-> 100] >>]]

\* The predictor after __init__: the loaded models in dict order, the
\* scaler, the optional calibrator and its base model.
\* the calibration_file is what __init__ found at
\* data/models/enhanced_calibration_factors.json (a key of CalibrationFiles).
Predictors ==
  { [models |-> <<>>, scaler |-> FALSE, calibrator |-> FALSE,
     calibrator_base_model |-> "ensemble", calibration_file |-> "absent"],
    [models |-> <<"ensemble">>, scaler |-> FALSE, calibrator |-> FALSE,
     calibrator_base_model |-> "ensemble", calibration_file |-> "unreadable"],
    [models |-> <<"random_forest", "ensemble">>, scaler |-> TRUE, calibrator |-> TRUE,
     calibrator_base_model |-> "ensemble", calibration_file |-> "absent"],
    [models |-> <<"logistic_regression">>, scaler |-> TRUE, calibrator |-> FALSE,
     calibrator_base_model |-> "ensemble", calibration_file |-> "factors"] }

\* self.elite_calibration of a predictor
EliteCalibrationOf(self) == _load_elite_calibration(CalibrationFiles[self.calibration_file])

ModelNames == {"ensemble", "xgboost"}

\* CollegePolicy(uses_testing, need_aware)
Policies == [uses_testing : BOOLEAN, need_aware : BOOLEAN]

\* supplied factor scores (tenths): None, below 0, in range, above 10
ScoreValues == {NoneVal, -20, 80, 130}

\* the factors whose supplied score varies: the two gated ones, the heaviest
\* one and two of the cluster
VaryKeys == {"grades", "testing", "ability_to_pay", "ecs_leadership",
             "awards_publications"}

\* raw score maps: every map over a subset of VaryKeys (the empty one
\* included), the perfect_scores of test_probability_consistency.py, which
\* holds keys outside FACTOR_WEIGHTS, and an applicant with 10 in the
\* academic factors and 8 in two cluster factors
RawScoreMaps ==
  UNION {[S -> ScoreValues] : S \in SUBSET VaryKeys}
  \cup {[k \in {"grades", "rigor", "essay", "ecs_leadership", "ecs_impact",
                "ecs_passion", "test_scores", "recommendations", "interview",
                "conduct_record"} |-> 100]}
  \cup {[k \in {"grades", "rigor", "testing", "essay", "recommendations",
                "ecs_leadership", "awards_publications"} |->
          IF k \in {"ecs_leadership", "awards_publications"} THEN 80 ELSE 100]}

\* composites (hundredths) and conduct scores (tenths) for apply_conduct_penalty
CompositeGrid == {(i * 100000) \div GridN : i \in 0..GridN} \cup {1000, 2000, 3999, 4000}
ConductScores == {NoneVal, -20, 0, 25, 49, 50, 100}

\* signal assignments for compute_misc_uplift: a base (nothing, or every
\* flag, tier and rigor cue below switched on) with a set of further flags
\* switched on and two of the counts
VaryFlags == {"has_research", "has_work", "has_award", "award_tier_school",
              "award_tier_national", "has_rigor_ib"}
BaseFlags == {"has_internship", "has_competition", "has_summer_program",
              "has_nonprofit", "has_leadership", "has_service",
              "award_tier_state", "award_tier_regional", "has_rigor_dual_enroll",
              "has_rigor_cambridge", "has_ap_exam"}
SignalsOf(base, on, count_awards, count_projects) ==
  [k \in SignalKeys |->
     IF k = "count_awards" THEN count_awards
     ELSE IF k = "count_projects" THEN count_projects
     ELSE IF k \in on \/ (base /\ k \in BaseFlags) THEN 1
     ELSE 0]
SignalAssignments ==
  {SignalsOf(base, on, ca, cp) :
     base \in BOOLEAN, on \in SUBSET VaryFlags, ca \in {0, 3}, cp \in {0, 3}}

\* acceptance rates (bp) on both sides of every band edge
UpliftRates == AcceptanceRates \cup {100, 500, 999, 1000, 1500, 2000, 2499, 3000, 3500}

\* build_audit: supplied scores in hundredths (None, out of range, the note
\* thresholds, and scores with two decimals), on a heavy, a gated and the
\* lightest factor
\* (8.25 and 8.75 are doubles, 8.35 is not: the double lies below it)
AuditValues == {NoneVal, -200, -1, 300, 500, 825, 835, 875, 900, 1300}
AuditKeys == {"grades", "testing", "conduct_record"}
AuditScoreMaps == UNION {[S -> AuditValues] : S \in SUBSET AuditKeys}

\* used_factors as compute_composite returns them for a policy, and a list
\* with a name outside FACTOR_WEIGHTS
UsedFactorLists ==
  {SelectSeq(FactorOrder,
             LAMBDA f : ~(f = "testing" /\ ~policy.uses_testing)
                        /\ ~(f = "ability_to_pay" /\ ~policy.need_aware)) :
     policy \in Policies}
  \cup {<<"grades", "conduct_record", "test_scores">>}

\* top_n of identify_strengths_and_weaknesses: 0 .. MaxTopN and one above
\* the number of rows
MaxTopN == 3
TopNs == 0..MaxTopN \cup {25}

\* students for _assess_profile_strength: every metric missing (None or
\* 0) or on either side of its two thresholds (gpa in hundredths), and the
\* number of factor scores at 8.0 or more
ProfileStudents ==
  [gpa_unweighted : {NoneVal, 0, 379, 380, 395},
   gpa_weighted : {NoneVal, 0, 399, 400, 430},
   sat_total : {NoneVal, 0, 1490, 1500, 1550},
   act_composite : {NoneVal, 0, 33, 34, 35},
   factor_scores : {ManyFactors(n, 80) : n \in {0, 9, 10, 14, 15}}]

(***************************************************************************)
(* Concurrent invocations.  The objects that invocations can share are     *)
(* the module-level tables of core/weights.py, the predictor's elite       *)
(* calibration table and the score maps of the callers; every other dict   *)
(* is allocated by the invocation that uses it.  An object id is           *)
(* <<owner, name>>, owner 0 for the shared objects.                        *)
(***************************************************************************)
Threads == {1, 2}

FactorWeightsId == <<0, "FACTOR_WEIGHTS">>
ClusterFactorsId == <<0, "CLUSTER_FACTORS">>
EliteCalibrationId == <<0, "elite_calibration">>

\* the score maps of the callers of compute_composite (tenths): one that
\* triggers the dampening, one that does not
CallerScoreMaps ==
  (<<0, "scores_a">> :> [grades |-> 130, ecs_leadership |-> 90,
                         awards_publications |-> 80, testing |-> 70])
  @@ (<<0, "scores_b">> :> [grades |-> 70, ecs_leadership |-> 90, testing |-> -20])

\* the score map of the callers of build_audit (hundredths)
CallerAuditMaps ==
  (<<0, "scores_audit">> :> [grades |-> 825, testing |-> 1300])

\* the heap before any invocation, without the predictor
ModuleHeap ==
  (FactorWeightsId :> FACTOR_WEIGHTS)
  @@ (ClusterFactorsId :> CLUSTER_FACTORS)
  @@ CallerScoreMaps
  @@ CallerAuditMaps

\* the heap of a process that has loaded a predictor
PredictorHeap(self) == ModuleHeap @@ (EliteCalibrationId :> EliteCalibrationOf(self))

\* an invocation that has not been made
IdleThread == [kind |-> "none", pc |-> "idle"]

\* the probabilities (e5) and names handed to _apply_elite_calibration by
\* concurrent predict calls
ConcProbabilities == {30000, 90000}

(***************************************************************************)
(* State.                                                                  *)
(***************************************************************************)
VARIABLES
  _predictor,      \* the module global of predictor.py that get_predictor() returns
  predictor,       \* the AdmissionPredictor instance the call in progress uses
                   \* (models, scaler, calibrator, calibration file)
  entry,           \* who called: "library", "/predict", "/api/predict/frontend",
                   \* "/calculate/{college_id}", "_apply_enhanced_elite_calibration"
  pc,              \* position inside the call
  req,             \* the arguments of the call
  mapper_args,     \* <<uses_testing, need_aware>> handed to calculate_admission_probability
  formula_result,  \* formula_result.probability as the mapper returned it (bp)
  formula_prob,    \* bp
  ml_prob,         \* bp
  model_name,      \* predict's local model_name
  model_key,       \* key in self.models of the model whose predict_proba ran
  ml_confidence,   \* e8
  blend_weights,   \* <<ml_weight, formula_weight>> in tenths
  final_prob,      \* e5 after the blend, e8 after the calibration
  raised,          \* the steps that raised an exception during this call
  result,          \* the PredictionResult, or the value of a pure call
  response,        \* the HTTP response of an endpoint
  heap,            \* the objects shared between concurrent invocations and the
                   \* dicts they allocate, by object id
  threads,         \* the concurrent invocations: position, arguments, locals
  issued,          \* the access tokens the auth routes have returned, each with
                   \* the user id and the branch that issued it
  last_auth,       \* the latest get_current_user_id call: token and outcome
  suggestion_cache, \* main.suggestion_cache: entries (key, data, time)
  clock,           \* time.time() in seconds
  served           \* the latest answer of POST /api/suggest/colleges

callVars == <<_predictor, predictor, entry, pc, req, mapper_args, formula_result, formula_prob, ml_prob,
              model_name, model_key, ml_confidence, blend_weights, final_prob,
              raised, result, response>>

concVars == <<heap, threads>>

authVars == <<issued, last_auth>>

cacheVars == <<suggestion_cache, clock, served>>

auxVars == <<concVars, authVars, cacheVars>>

vars == <<callVars, auxVars>>

NoReq == [student |-> CHOOSE st \in Students : TRUE,
          college |-> CHOOSE c \in Colleges : TRUE,
          model_name |-> "ensemble", use_formula |-> TRUE,
          misc_items |-> [kind |-> "none", signals |-> NoSignals],
          probability |-> NoneVal]

NoResult == [model_used |-> "none"]
NoResponse == [status |-> 0]

NoAuth == [called |-> FALSE]
NoServed == [status |-> 0]

\* no call in progress
CallIdle ==
  /\ _predictor \in Predictors
  /\ predictor = _predictor
  /\ entry = "none"
  /\ pc = "idle"
  /\ req = NoReq
  /\ mapper_args = <<TRUE, FALSE>>
  /\ formula_result = NoneVal
  /\ formula_prob = NoneVal
  /\ ml_prob = NoneVal
  /\ model_name = "none"
  /\ model_key = "none"
  /\ ml_confidence = NoneVal
  /\ blend_weights = <<NoneVal, NoneVal>>
  /\ final_prob = NoneVal
  /\ raised = {}
  /\ result = NoResult
  /\ response = NoResponse

\* no token issued, no token presented
AuthIdle ==
  /\ issued = {}
  /\ last_auth = NoAuth

\* suggestion_cache = {} at import, no request served
CacheIdle ==
  /\ suggestion_cache = {}
  /\ clock = 0
  /\ served = NoServed

Init ==
  /\ CallIdle
  /\ heap = ModuleHeap
  /\ threads = [t \in Threads |-> IdleThread]
  /\ AuthIdle
  /\ CacheIdle

(***************************************************************************)
(* Calls.                                                                  *)
(***************************************************************************)
\* predictor.predict(student, college, model_name, use_formula, misc_items)
CallPredict ==
  /\ pc = "idle"
  /\ \E student \in Students, college \in Colleges, mn \in ModelNames,
        use_formula \in BOOLEAN, misc_items \in MiscItems :
       req' = [student |-> student, college |-> college, model_name |-> mn,
               use_formula |-> use_formula, misc_items |-> misc_items,
               probability |-> NoneVal]
  /\ entry' = "library"
  /\ pc' = "formula"
  /\ model_name' = req'.model_name
  /\ UNCHANGED auxVars
  /\ UNCHANGED <<_predictor, predictor, mapper_args, formula_result, formula_prob, ml_prob, model_key,
                 ml_confidence, blend_weights, final_prob, raised, result, response>>

\* POST /predict: predictor = get_predictor() and, with no await in between,
\* predictor.predict(student, college) inside the try
\* (college.name is request.college, a str)
HttpPredict ==
  /\ pc = "idle"
  /\ predictor' = _predictor
  /\ \E student \in Students, college \in Colleges :
       /\ college.name # NoneName
       /\ req' = [student |-> student, college |-> college, model_name |-> "ensemble",
                  use_formula |-> TRUE,
                  misc_items |-> [kind |-> "none", signals |-> NoSignals],
                  probability |-> NoneVal]
  /\ entry' = "/predict"
  /\ pc' = "formula"
  /\ model_name' = "ensemble"
  /\ UNCHANGED auxVars
  /\ UNCHANGED <<_predictor, mapper_args, formula_result, formula_prob, ml_prob, model_key,
                 ml_confidence, blend_weights, final_prob, raised, result, response>>

\* POST /api/predict/frontend up to its first await: predictor =
\* get_predictor(), the student of the request, college_data =
\* get_college_data(request.college) with the acceptance rate of the database
HttpFrontend ==
  /\ pc = "idle"
  /\ predictor' = _predictor
  /\ \E student \in Students, college \in Colleges :
       /\ college.name # NoneName
       /\ req' = [student |-> student, college |-> college, model_name |-> "ensemble",
                  use_formula |-> TRUE,
                  misc_items |-> [kind |-> "none", signals |-> NoSignals],
                  probability |-> NoneVal]
  /\ entry' = "/api/predict/frontend"
  /\ pc' = "await_college_info"
  /\ model_name' = "ensemble"
  /\ UNCHANGED auxVars
  /\ UNCHANGED <<_predictor, mapper_args, formula_result, formula_prob, ml_prob, model_key,
                 ml_confidence, blend_weights, final_prob, raised, result, response>>

\* await college_info_service.get_college_info(...) returns or raises; when
\* it raises, the except branch keeps the acceptance rate of the database and
\* the handler goes on to predictor.predict(student, college,
\* model_name='ensemble', use_formula=True)
FrontendCollegeInfo ==
  /\ pc = "await_college_info"
  /\ pc' \in {"await_subject_emphasis", "formula"}
  /\ UNCHANGED auxVars
  /\ UNCHANGED <<_predictor, predictor, entry, req, mapper_args, formula_result, formula_prob,
                 ml_prob, model_name, model_key, ml_confidence, blend_weights,
                 final_prob, raised, result, response>>

\* await college_info_service.get_college_subject_emphasis(...) returns, and
\* real_acceptance_rate is the rate the service gave (it is not used before
\* this point), or raises, and the except branch keeps the rate of the
\* database; then predictor.predict(...) on the predictor taken at the start
FrontendSubjectEmphasis ==
  /\ pc = "await_subject_emphasis"
  /\ \/ \E real_acceptance_rate \in AcceptanceRates :
          req' = [req EXCEPT !.college.acceptance_rate = real_acceptance_rate]
     \/ UNCHANGED req
  /\ pc' = "formula"
  /\ UNCHANGED auxVars
  /\ UNCHANGED <<_predictor, predictor, entry, mapper_args, formula_result, formula_prob,
                 ml_prob, model_name, model_key, ml_confidence, blend_weights,
                 final_prob, raised, result, response>>

\* GET /api/debug/reload-predictor: get_predictor(force_reload=True) replaces
\* the global by a predictor built from what is on disk now; when the
\* constructor raises, the global stays.  The event loop runs this handler
\* between requests or while another handler is suspended at an await; a
\* handler that took the predictor before goes on with the object it holds.
ReloadPredictor ==
  /\ pc \in {"idle", "await_college_info", "await_subject_emphasis"}
  /\ _predictor' \in Predictors
  /\ IF pc = "idle" THEN predictor' = _predictor' ELSE UNCHANGED predictor
  /\ UNCHANGED auxVars
  /\ UNCHANGED <<entry, pc, req, mapper_args, formula_result, formula_prob, ml_prob,
                 model_name, model_key, ml_confidence, blend_weights, final_prob,
                 raised, result, response>>

(***************************************************************************)
(* AdmissionPredictor.predict, step by step.                               *)
(***************************************************************************)
\* calculate_admission_probability(...) and the clip of its probability.
\* The mapper is not part of the examined source: by its contract it
\* returns a probability in [0, 1]; like any call it may raise, and predict
\* does not catch that.
PredictFormula ==
  /\ pc = "formula"
  /\ mapper_args' = <<req.college.test_policy # "Test-blind",
                      req.college.financial_aid_policy = "Need-aware">>
  /\ \/ /\ raised' = raised \cup {"formula"}
        /\ pc' = "raised"
        /\ UNCHANGED <<formula_result, formula_prob>>
     \/ \E probability \in FormulaProbs :
          /\ formula_result' = probability
          /\ formula_prob' = Clip(probability, 100, 9800)
          /\ pc' = "check_ml"
          /\ UNCHANGED raised
  /\ UNCHANGED auxVars
  /\ UNCHANGED <<_predictor, predictor, entry, req, ml_prob, model_name, model_key,
                 ml_confidence, blend_weights, final_prob, result, response>>

\* FormulaOnlyResult with the interval of half-width 0.15
FormulaOnlyResult_wide(p) ==
  [probability |-> p * 100000,
   confidence_interval |-> <<Max(20000000, (p - 1500) * 100000),
                             Min(980000000, (p + 1500) * 100000)>>,
   ml_probability |-> p,
   formula_probability |-> p,
   ml_confidence |-> 0,
   blend_weights |-> <<0, 10>>,
   model_used |-> "formula_only"]

\* PredictionResult(probability=formula_prob, ...) of the formula-only return
FormulaOnlyResult(p) ==
  [probability |-> p * 100000,
   confidence_interval |-> <<Max(20000000, (p - 1000) * 100000),
                             Min(980000000, (p + 1000) * 100000)>>,
   ml_probability |-> p,
   formula_probability |-> p,
   ml_confidence |-> 0,
   blend_weights |-> <<0, 10>>,
   model_used |-> "formula_only"]

\* if not self.is_available(): return PredictionResult(... formula only ...)
PredictFormulaOnly ==
  /\ pc = "check_ml"
  /\ ~is_available(predictor)
  /\ result' = FormulaOnlyResult(formula_prob)
  /\ pc' = "returned"
  /\ UNCHANGED auxVars
  /\ UNCHANGED <<_predictor, predictor, entry, req, mapper_args, formula_result, formula_prob, ml_prob,
                 model_name, model_key, ml_confidence, blend_weights, final_prob,
                 raised, response>>

InModels(name) == \E i \in DOMAIN predictor.models : predictor.models[i] = name

\* feature extraction, selection and scaling, model selection, predict_proba,
\* the optional calibrator.  extract_features, feature_selector.transform,
\* scaler.transform and model.predict_proba are outside any try: when one of
\* them raises (features the loaded scaler or model does not accept),
\* predict raises.
PredictML ==
  /\ pc = "check_ml"
  /\ is_available(predictor)
  /\ \/ /\ raised' = raised \cup {"ml"}
        /\ pc' = "raised"
        /\ UNCHANGED <<model_key, model_name, ml_prob>>
     \/ /\ LET \* self.models.get(model_name, self.models.get('ensemble'))
               found == IF InModels(model_name) THEN model_name
                        ELSE IF InModels("ensemble") THEN "ensemble"
                        ELSE "none"
               key  == IF found = "none" THEN predictor.models[1] ELSE found
               name == IF found = "none" THEN predictor.models[1] ELSE model_name
           IN  /\ model_key' = key
               /\ model_name' = name
               /\ \E p \in MLProbs :
                    IF predictor.calibrator /\ name = predictor.calibrator_base_model
                    THEN \/ \E calibrated_prob \in MLProbs :
                              ml_prob' = Clip(calibrated_prob, 1, 9999)
                         \/ ml_prob' = p    \* the calibrator raised: uncalibrated prob
                    ELSE ml_prob' = p
        /\ pc' = "blend"
        /\ UNCHANGED raised
  /\ UNCHANGED auxVars
  /\ UNCHANGED <<_predictor, predictor, entry, req, mapper_args, formula_result, formula_prob,
                 ml_confidence, blend_weights, final_prob, result, response>>

\* ml_confidence, the blend weights and the blend
PredictBlend ==
  /\ pc = "blend"
  /\ ml_confidence' = MlConfidence(ml_prob)
  /\ blend_weights' = BlendWeights(ml_confidence', req.use_formula)
  /\ final_prob' = Blend(ml_prob, formula_prob, ml_confidence', req.use_formula)
  /\ pc' = "calibrate"
  /\ UNCHANGED auxVars
  /\ UNCHANGED <<_predictor, predictor, entry, req, mapper_args, formula_result, formula_prob, ml_prob,
                 model_name, model_key, raised, result, response>>

\* final_prob = self._apply_elite_calibration(final_prob, college), outside any try:
\* college.name.lower() raises on a name that is None
PredictCalibrate ==
  /\ pc = "calibrate"
  /\ IF req.college.name = NoneName
     THEN /\ raised' = raised \cup {"calibration"}
          /\ pc' = "raised"
          /\ UNCHANGED final_prob
     ELSE /\ final_prob' = _apply_elite_calibration(EliteCalibrationOf(predictor),
                                                        final_prob, req.college.name)
          /\ pc' = "uplift"
          /\ UNCHANGED raised
  /\ UNCHANGED auxVars
  /\ UNCHANGED <<_predictor, predictor, entry, req, mapper_args, formula_result, formula_prob, ml_prob,
                 model_name, model_key, ml_confidence, blend_weights, result, response>>

\* if misc_items: try: ... final_prob = min(0.98, final_prob + misc_uplift) except: ...
PredictUplift ==
  /\ pc = "uplift"
  /\ CASE req.misc_items.kind = "none" ->
            UNCHANGED <<final_prob, raised>>
       [] req.misc_items.kind = "malformed" ->
            /\ raised' = raised \cup {"uplift"}
            /\ UNCHANGED final_prob
       [] OTHER ->
            /\ final_prob' =
                 Min(98000000,
                     final_prob + 1000 * compute_misc_uplift(req.misc_items.signals,
                                                             req.college.acceptance_rate))
            /\ UNCHANGED raised
  /\ pc' = "reconcile"
  /\ UNCHANGED auxVars
  /\ UNCHANGED <<_predictor, predictor, entry, req, mapper_args, formula_result, formula_prob, ml_prob,
                 model_name, model_key, ml_confidence, blend_weights, result, response>>

\* clip, acceptance-rate-aware calibration, confidence interval, the result
PredictReconcile ==
  /\ pc = "reconcile"
  /\ LET clipped  == Clip(final_prob, 2000000, 98000000)
         final    == Reconcile(clipped, req.college.acceptance_rate)
         ci_width == CiWidth(ml_confidence)
     IN  result' = [probability |-> final,
                    confidence_interval |-> <<Max(20000000, final - ci_width),
                                              Min(980000000, final + ci_width)>>,
                    ml_probability |-> ml_prob,
                    formula_probability |-> formula_prob,
                    ml_confidence |-> ml_confidence,
                    blend_weights |-> blend_weights,
                    model_used |-> model_name]
  /\ pc' = "returned"
  /\ UNCHANGED auxVars
  /\ UNCHANGED <<_predictor, predictor, entry, req, mapper_args, formula_result, formula_prob, ml_prob,
                 model_name, model_key, ml_confidence, blend_weights, final_prob,
                 raised, response>>

(***************************************************************************)
(* The endpoints' answers.                                                 *)
(***************************************************************************)
\* predict_admission: the return of the try body, or the except branch
RespondPredict ==
  /\ entry = "/predict"
  /\ pc \in {"returned", "raised"}
  /\ response' = IF pc = "returned"
                 THEN [status |-> 200, kind |-> "prediction",
                       probability |-> result.probability]
                 ELSE [status |-> 200, kind |-> "deterministic_fallback",
                       probability |-> deterministic_fallback(req.student)]
  /\ pc' = "responded"
  /\ UNCHANGED auxVars
  /\ UNCHANGED <<_predictor, predictor, entry, req, mapper_args, formula_result, formula_prob, ml_prob,
                 model_name, model_key, ml_confidence, blend_weights, final_prob,
                 raised, result>>

\* predict_admission_frontend: the return of the try body, or the except
\* branch {"success": False, "error": ..., "message": ...}.  The double
\* result.probability comes out of a chain of float operations on the side
\* of its exact value that the rounding errors of the chain decide; the
\* model does not follow them, so at a tie of round(.., 4) either neighbour
\* can be the answer.
RespondFrontend ==
  /\ entry = "/api/predict/frontend"
  /\ pc \in {"returned", "raised"}
  /\ IF pc = "returned"
     THEN \E side \in {-1, 1} :
            response' = [status |-> 200, kind |-> "prediction",
                         probability |-> Round4(result.probability, side)]
     ELSE response' = [status |-> 200, kind |-> "error", probability |-> NoneVal]
  /\ pc' = "responded"
  /\ UNCHANGED auxVars
  /\ UNCHANGED <<_predictor, predictor, entry, req, mapper_args, formula_result, formula_prob, ml_prob,
                 model_name, model_key, ml_confidence, blend_weights, final_prob,
                 raised, result>>

\* POST /calculate/{college_id}: calculate_probability
HttpCalculate ==
  /\ pc = "idle"
  /\ entry' = "/calculate/{college_id}"
  /\ \E student \in Students, college \in Colleges, found \in BOOLEAN :
       /\ college.name # NoneName
       /\ req' = [student |-> student, college |-> college, model_name |-> "none",
                  use_formula |-> TRUE,
                  misc_items |-> [kind |-> "none", signals |-> NoSignals],
                  probability |-> NoneVal]
       /\ IF ~found
          THEN /\ response' = [status |-> 404, kind |-> "error", probability |-> NoneVal]
               /\ UNCHANGED <<mapper_args, formula_result, raised>>
          ELSE /\ mapper_args' = <<college.test_policy # "Blind",
                                   college.financial_aid_policy = "Need-aware">>
               /\ \/ /\ raised' = {"formula"}
                     /\ response' = [status |-> 500, kind |-> "error",
                                     probability |-> NoneVal]
                     /\ UNCHANGED formula_result
                  \/ /\ UNCHANGED raised
                     /\ \E probability \in FormulaProbs :
                          /\ formula_result' = probability
                          /\ response' = [status |-> 200, kind |-> "prediction",
                                          probability |-> probability * 100000]
  /\ pc' = "responded"
  /\ UNCHANGED auxVars
  /\ UNCHANGED <<_predictor, predictor, formula_prob, ml_prob, model_name, model_key,
                 ml_confidence, blend_weights, final_prob, result>>

(***************************************************************************)
(* The two calibration functions as calls of their own.                    *)
(***************************************************************************)
\* probabilities in thousandths
ProbGrid3 == {(i * 1000) \div GridN : i \in 0..GridN} \cup {50, 950}

\* self._apply_elite_calibration(probability, college); probability is in
\* thousandths here, the result in nano
CallEliteCalibration ==
  /\ pc = "idle"
  /\ entry' = "_apply_elite_calibration"
  /\ \E name \in CollegeNames \cup {NoneName}, probability \in ProbGrid3 :
       /\ req' = [student |-> NoReq.student,
                  college |-> [name |-> name, acceptance_rate |-> NoneVal,
                               test_policy |-> "Required",
                               financial_aid_policy |-> "Need-blind"],
                  model_name |-> "none", use_formula |-> TRUE,
                  misc_items |-> [kind |-> "none", signals |-> NoSignals],
                  probability |-> probability]
       /\ IF name = NoneName
          THEN /\ raised' = {"calibration"}
               /\ pc' = "raised"
               /\ UNCHANGED result
          ELSE /\ result' = [value |-> 10 * _apply_elite_calibration(
                                               EliteCalibrationOf(predictor),
                                               probability * 100, name),
                             model_used |-> "none"]
               /\ pc' = "returned"
               /\ UNCHANGED raised
  /\ UNCHANGED auxVars
  /\ UNCHANGED <<_predictor, predictor, mapper_args, formula_result, formula_prob, ml_prob, model_name,
                 model_key, ml_confidence, blend_weights, final_prob, response>>

CallEnhancedCalibration ==
  /\ pc = "idle"
  /\ entry' = "_apply_enhanced_elite_calibration"
  /\ \E student \in Students, name \in CollegeNames \cup {NoneName},
        probability \in ProbGrid3 :
       /\ req' = [student |-> student,
                  college |-> [name |-> name, acceptance_rate |-> NoneVal,
                               test_policy |-> "Required",
                               financial_aid_policy |-> "Need-blind"],
                  model_name |-> "none", use_formula |-> TRUE,
                  misc_items |-> [kind |-> "none", signals |-> NoSignals],
                  probability |-> probability]
       /\ IF name = NoneName
          THEN /\ raised' = {"calibration"}
               /\ pc' = "raised"
               /\ UNCHANGED result
          ELSE /\ result' = [value |-> _apply_enhanced_elite_calibration(
                                          probability, name, student),
                             model_used |-> "none"]
               /\ pc' = "returned"
               /\ UNCHANGED raised
  /\ UNCHANGED auxVars
  /\ UNCHANGED <<_predictor, predictor, mapper_args, formula_result, formula_prob, ml_prob, model_name,
                 model_key, ml_confidence, blend_weights, final_prob, response>>

(***************************************************************************)
(* The functions of core/scoring.py and compute_misc_uplift as calls of    *)
(* their own.                                                              *)
(***************************************************************************)
\* with_defaults(scores, policy, treat_missing_as_neutral)
CallWithDefaults ==
  /\ pc = "idle"
  /\ entry' = "with_defaults"
  /\ \E scores \in RawScoreMaps, policy \in Policies,
        treat_missing_as_neutral \in BOOLEAN :
       /\ req' = [scores |-> scores, policy |-> policy,
                  treat_missing_as_neutral |-> treat_missing_as_neutral]
       /\ result' = [value |-> with_defaults(scores, policy, treat_missing_as_neutral),
                     model_used |-> "none"]
  /\ pc' = "returned"
  /\ UNCHANGED auxVars
  /\ UNCHANGED <<_predictor, predictor, mapper_args, formula_result, formula_prob, ml_prob, model_name,
                 model_key, ml_confidence, blend_weights, final_prob, raised, response>>

\* compute_composite(raw_scores, policy)
CallComputeComposite ==
  /\ pc = "idle"
  /\ entry' = "compute_composite"
  /\ \E scores \in RawScoreMaps, policy \in Policies :
       /\ req' = [scores |-> scores, policy |-> policy]
       /\ result' = [value |-> compute_composite(scores, policy), model_used |-> "none"]
  /\ pc' = "returned"
  /\ UNCHANGED auxVars
  /\ UNCHANGED <<_predictor, predictor, mapper_args, formula_result, formula_prob, ml_prob, model_name,
                 model_key, ml_confidence, blend_weights, final_prob, raised, response>>

\* apply_conduct_penalty(composite, conduct_score)
CallConductPenalty ==
  /\ pc = "idle"
  /\ entry' = "apply_conduct_penalty"
  /\ \E composite \in CompositeGrid, conduct_score \in ConductScores :
       /\ req' = [composite |-> composite, conduct_score |-> conduct_score]
       /\ result' = [value |-> apply_conduct_penalty(composite, conduct_score),
                     model_used |-> "none"]
  /\ pc' = "returned"
  /\ UNCHANGED auxVars
  /\ UNCHANGED <<_predictor, predictor, mapper_args, formula_result, formula_prob, ml_prob, model_name,
                 model_key, ml_confidence, blend_weights, final_prob, raised, response>>

\* compute_misc_uplift(signals, acceptance_rate)
CallMiscUplift ==
  /\ pc = "idle"
  /\ entry' = "compute_misc_uplift"
  /\ \E signals \in SignalAssignments, acceptance_rate \in UpliftRates :
       /\ req' = [signals |-> signals, acceptance_rate |-> acceptance_rate]
       /\ result' = [value |-> compute_misc_uplift(signals, acceptance_rate),
                     model_used |-> "none"]
  /\ pc' = "returned"
  /\ UNCHANGED auxVars
  /\ UNCHANGED <<_predictor, predictor, mapper_args, formula_result, formula_prob, ml_prob, model_name,
                 model_key, ml_confidence, blend_weights, final_prob, raised, response>>

\* build_audit(scores, used_factors, policy_notes)
CallBuildAudit ==
  /\ pc = "idle"
  /\ entry' = "build_audit"
  /\ \E scores \in AuditScoreMaps, used_factors \in UsedFactorLists :
       /\ req' = [scores |-> scores, used_factors |-> used_factors]
       /\ result' = [value |-> build_audit(scores, used_factors, <<>>),
                     model_used |-> "none"]
  /\ pc' = "returned"
  /\ UNCHANGED auxVars
  /\ UNCHANGED <<_predictor, predictor, mapper_args, formula_result, formula_prob, ml_prob, model_name,
                 model_key, ml_confidence, blend_weights, final_prob, raised, response>>

\* identify_strengths_and_weaknesses(audit_rows, top_n) on the rows of a
\* build_audit call
CallIdentify ==
  /\ pc = "idle"
  /\ entry' = "identify_strengths_and_weaknesses"
  /\ \E scores \in AuditScoreMaps, uses_testing \in BOOLEAN, top_n \in TopNs :
       LET used_factors == SelectSeq(FactorOrder,
                                     LAMBDA f : f # "ability_to_pay"
                                                /\ (f = "testing" => uses_testing))
           audit_rows == build_audit(scores, used_factors, <<>>)
       IN  /\ req' = [audit_rows |-> audit_rows, top_n |-> top_n]
           /\ result' = [value |-> identify_strengths_and_weaknesses(audit_rows, top_n),
                         model_used |-> "none"]
  /\ pc' = "returned"
  /\ UNCHANGED auxVars
  /\ UNCHANGED <<_predictor, predictor, mapper_args, formula_result, formula_prob, ml_prob, model_name,
                 model_key, ml_confidence, blend_weights, final_prob, raised, response>>

\* _assess_profile_strength(predictor, student)
CallAssessProfileStrength ==
  /\ pc = "idle"
  /\ entry' = "_assess_profile_strength"
  /\ \E student \in ProfileStudents :
       /\ req' = [student |-> student]
       /\ result' = [value |-> _assess_profile_strength(student), model_used |-> "none"]
  /\ pc' = "returned"
  /\ UNCHANGED auxVars
  /\ UNCHANGED <<_predictor, predictor, mapper_args, formula_result, formula_prob, ml_prob, model_name,
                 model_key, ml_confidence, blend_weights, final_prob, raised, response>>

Next ==
  \/ CallPredict
  \/ HttpPredict
  \/ HttpFrontend
  \/ FrontendCollegeInfo
  \/ FrontendSubjectEmphasis
  \/ ReloadPredictor
  \/ HttpCalculate
  \/ CallEliteCalibration
  \/ CallEnhancedCalibration
  \/ CallWithDefaults
  \/ CallComputeComposite
  \/ CallConductPenalty
  \/ CallMiscUplift
  \/ CallBuildAudit
  \/ CallIdentify
  \/ CallAssessProfileStrength
  \/ PredictFormula
  \/ PredictFormulaOnly
  \/ PredictML
  \/ PredictBlend
  \/ PredictCalibrate
  \/ PredictUplift
  \/ PredictReconcile
  \/ RespondPredict
  \/ RespondFrontend

Spec == Init /\ [][Next]_vars

(***************************************************************************)
(* Properties.                                                             *)
(***************************************************************************)
PredictEntries == {"library", "/predict", "/api/predict/frontend"}

\* predict has returned a PredictionResult
Returned == entry \in PredictEntries /\ result # NoResult

\* ... on the hybrid path
HybridReturned == Returned /\ is_available(predictor)

\* C1: the probability of every PredictionResult that predict returns lies
\* in [0.02, 0.98], on the formula-only path as well as on the hybrid path.
C1_ProbabilityInRange ==
  Returned => /\ 20000000 <= result.probability
              /\ result.probability <= 980000000

\* C2: the confidence interval (lower, upper) of every PredictionResult
\* satisfies 0.02 <= lower <= probability <= upper <= 0.98.
C2_ConfidenceIntervalBrackets ==
  Returned =>
    LET lower == result.confidence_interval[1]
        upper == result.confidence_interval[2]
    IN  /\ 20000000 <= lower
        /\ lower <= result.probability
        /\ result.probability <= upper
        /\ upper <= 980000000

\* C3: an exception of the elite-calibration step or of the misc-uplift step
\* never aborts predict: the call goes on (and returns a result) from the
\* probability of the step before.
C3_CalibrationFailureNonFatal ==
  (entry \in PredictEntries /\ raised \cap {"calibration", "uplift"} # {})
    => pc # "raised"

\* C4: every prediction endpoint answers an internal computation failure
\* with a numeric probability, never with a response without one.
C4_FailureAnsweredWithProbability ==
  (response # NoResponse /\ raised # {}) => response.probability # NoneVal

\* The reconciliation of the spec for a probability p (e8) and a rate a (bp).
SpecReconcile(p, a) ==
  LET max_allowed == IF (a + 3500) * 100000 < 980000000
                     THEN (a + 3500) * 100000 ELSE 980000000
      min_allowed == IF 30000 * a > 20000000 THEN 30000 * a ELSE 20000000
      reblended   == 7 * p + 30000 * a
  IN  IF reblended > max_allowed THEN max_allowed
      ELSE IF reblended < min_allowed THEN min_allowed
      ELSE reblended

\* The probability predict clips to [0.02, 0.98] before the reconciliation (e8).
ClippedProb ==
  IF final_prob < 2000000 THEN 2000000
  ELSE IF final_prob > 98000000 THEN 98000000
  ELSE final_prob

\* C5 as stated: on the hybrid path, for every acceptance rate a in [0, 1],
\* the final probability is the reconciliation of the clipped probability
\* with max_allowed, min_allowed and the re-blend computed from a itself.
C5_ReconcileWithRawRate ==
  (HybridReturned /\ req.college.acceptance_rate # NoneVal) =>
    result.probability = SpecReconcile(ClippedProb, req.college.acceptance_rate)

\* C5 amended: ... computed from the acceptance rate clipped to [0.02, 0.98]
\* (from a itself when a is in [0.02, 0.98]).
C5_ReconcileWithClippedRate ==
  (HybridReturned /\ req.college.acceptance_rate # NoneVal) =>
    LET a == req.college.acceptance_rate
        clipped == IF a < 200 THEN 200 ELSE IF a > 9800 THEN 9800 ELSE a
    IN  result.probability = SpecReconcile(ClippedProb, clipped)

\* a hybrid result for acceptance_rate 0 that the cap max_allowed = 0.02 + 0.35 decided
C5_Witness ==
  /\ HybridReturned
  /\ req.college.acceptance_rate = 0
  /\ result.probability = 370000000
  /\ 7 * ClippedProb + 30000 * 200 > 370000000

\* C6: ml_confidence = clamp(1 - 4p(1-p), 0.3, 0.9); with use_formula the
\* weights are (0.6, 0.4) above 0.7, (0.5, 0.5) in (0.5, 0.7], (0.4, 0.6) up
\* to 0.5, without it (1, 0); the blend is ml*p + formula*formula_probability
\* and the weights sum to 1.
C6_ConfidenceAndBlend ==
  (entry \in PredictEntries /\ ml_confidence # NoneVal) =>
    LET raw  == 100000000 - 4 * ml_prob * (10000 - ml_prob)
        conf == IF raw < 30000000 THEN 30000000
                ELSE IF raw > 90000000 THEN 90000000 ELSE raw
        w    == IF ~req.use_formula THEN <<10, 0>>
                ELSE IF conf > 70000000 THEN <<6, 4>>
                ELSE IF conf > 50000000 /\ conf <= 70000000 THEN <<5, 5>>
                ELSE <<4, 6>>
    IN  /\ ml_confidence = conf
        /\ blend_weights = w
        /\ blend_weights[1] + blend_weights[2] = 10
        /\ pc = "calibrate" => final_prob = w[1] * ml_prob + w[2] * formula_prob
        /\ Returned => /\ result.ml_confidence = conf
                       /\ result.blend_weights = w

\* a blend of the middle tier, of two different probabilities
C6_Witness ==
  /\ entry \in PredictEntries
  /\ pc = "calibrate"
  /\ req.use_formula
  /\ blend_weights = <<5, 5>>
  /\ ml_prob # formula_prob

\* The bucket multipliers of the spec, in tenths.
FactorMult == [perfect |-> 12, strong |-> 10, average |-> 7, below_average |-> 5]
CapMult == [perfect |-> 10, strong |-> 8, average |-> 6, below_average |-> 4]

\* case-insensitive substring match in either direction
NameHit(key, name) ==
  \/ Contains(Lower(key), Lower(name))
  \/ Contains(Lower(name), Lower(key))

\* C7: in predict, at a college that matches a calibration entry, the
\* blended probability is multiplied by factor x {1.2, 1.0, 0.7, 0.5} and
\* capped at max_prob x {1.0, 0.8, 0.6, 0.4} by the student's bucket.
C7_BucketAwareCalibration ==
  (entry \in PredictEntries /\ pc = "uplift") =>
    LET hits    == {i \in DOMAIN EliteCalibrationOf(predictor) :
                      NameHit(EliteCalibrationOf(predictor)[i].name, req.college.name)}
        blended == blend_weights[1] * ml_prob + blend_weights[2] * formula_prob
        bucket  == _assess_profile_strength(req.student)
    IN  hits # {} =>
          \E k \in hits :
            /\ \A j \in hits : k <= j
            /\ final_prob * 10 =
                 Min(blended * EliteCalibrationOf(predictor)[k].factor * FactorMult[bucket],
                     EliteCalibrationOf(predictor)[k].max_prob * CapMult[bucket] * 100000)

\* C8: _apply_enhanced_elite_calibration returns min(probability x
\* calibration_factor x {1.2, 1.0, 0.7, 0.5}, max_probability x {1.0, 0.8,
\* 0.6, 0.4}) for the matched entry, which never exceeds the entry's
\* max_probability, and the probability unchanged when no entry matches.
C8_EnhancedCalibration ==
  (entry = "_apply_enhanced_elite_calibration" /\ pc = "returned") =>
    LET m      == EnhancedMatch(Lower(req.college.name))
        bucket == _assess_profile_strength(req.student)
    IN  IF m = 0 THEN result.value = req.probability * 1000000
        ELSE /\ result.value =
                  Min(req.probability * enhanced_elite_calibration[m].calibration_factor
                        * FactorMult[bucket],
                      enhanced_elite_calibration[m].max_probability
                        * CapMult[bucket] * 100)
             /\ result.value <= enhanced_elite_calibration[m].max_probability * 1000

\* a calibrated value that the cap of the entry decided
C8_Witness ==
  /\ entry = "_apply_enhanced_elite_calibration"
  /\ pc = "returned"
  /\ EnhancedMatch(Lower(req.college.name)) # 0
  /\ LET e == enhanced_elite_calibration[EnhancedMatch(Lower(req.college.name))]
         bucket == _assess_profile_strength(req.student)
     IN  /\ result.value = e.max_probability * CapMult[bucket] * 100
         /\ result.value < req.probability * e.calibration_factor * FactorMult[bucket]

\* C9: the lookup matches case-insensitively by substring in either
\* direction; of several matching entries the first of the table is
\* applied; a name that matches no key leaves the probability unchanged.
C9_FirstMatchWins ==
  /\ (entry = "_apply_elite_calibration" /\ pc = "returned") =>
       LET hits == {i \in DOMAIN EliteCalibrationOf(predictor) :
                      NameHit(EliteCalibrationOf(predictor)[i].name, req.college.name)}
       IN  IF hits = {} THEN result.value = req.probability * 1000000
           ELSE \E k \in hits :
                  /\ \A j \in hits : k <= j
                  /\ result.value =
                       Min(req.probability * EliteCalibrationOf(predictor)[k].factor * 1000,
                           EliteCalibrationOf(predictor)[k].max_prob * 1000000)
  /\ (entry = "_apply_enhanced_elite_calibration" /\ pc = "returned") =>
       LET hits == {i \in DOMAIN enhanced_elite_calibration :
                      NameHit(enhanced_elite_calibration[i].name, req.college.name)}
           bucket == _assess_profile_strength(req.student)
       IN  IF hits = {} THEN result.value = req.probability * 1000000
           ELSE \E k \in hits :
                  /\ \A j \in hits : k <= j
                  /\ result.value =
                       Min(req.probability
                             * EnhancedFactor(enhanced_elite_calibration[k], bucket),
                           EnhancedMaxProb(enhanced_elite_calibration[k], bucket))

\* a name that several keys match, calibrated with the first of them
C9_Witness ==
  /\ entry = "_apply_elite_calibration"
  /\ pc = "returned"
  /\ req.probability > 0
  /\ Cardinality({i \in DOMAIN EliteCalibrationOf(predictor) :
                    NameHit(EliteCalibrationOf(predictor)[i].name, req.college.name)}) >= 2
  /\ req.college.name # Lower(req.college.name)

\* C10: without an available ML model predict returns the formula-only
\* result: probability = the mapper's probability clipped to [0.01, 0.98],
\* the interval = probability -/+ 0.10 clipped to [0.02, 0.98], ml_confidence
\* 0, weights (0, 1), model_used "formula_only"; no inference, calibration,
\* uplift or reconciliation happens.
C10_FormulaOnly ==
  (entry \in PredictEntries /\ ~is_available(predictor)) =>
    /\ pc \notin {"blend", "calibrate", "uplift", "reconcile"}
    /\ ml_prob = NoneVal /\ model_key = "none"
    /\ ml_confidence = NoneVal /\ final_prob = NoneVal
    /\ raised \subseteq {"formula"}
    /\ Returned =>
         LET fp == IF formula_result < 100 THEN 100
                   ELSE IF formula_result > 9800 THEN 9800 ELSE formula_result
             lo == IF (fp - 1000) * 100000 < 20000000 THEN 20000000
                   ELSE (fp - 1000) * 100000
             hi == IF (fp + 1000) * 100000 > 980000000 THEN 980000000
                   ELSE (fp + 1000) * 100000
         IN  /\ result.probability = fp * 100000
             /\ result.formula_probability = fp
             /\ result.confidence_interval = <<lo, hi>>
             /\ result.ml_confidence = 0
             /\ result.blend_weights = <<0, 10>>
             /\ result.model_used = "formula_only"

\* a formula-only result whose interval is clipped at 0.98
C10_Witness ==
  /\ Returned
  /\ ~is_available(predictor)
  /\ formula_result > 9800
  /\ result.confidence_interval = <<880000000, 980000000>>

\* C11: every predict call hands the formula mapper
\* uses_testing = (college.test_policy # "Blind") and
\* need_aware = (college.financial_aid_policy = "Need-aware"), the same
\* arguments POST /calculate/{college_id} computes for that college.
C11_MapperArgsAsCalculate ==
  (entry \in PredictEntries /\ pc \notin {"idle", "formula"}) =>
    mapper_args = <<req.college.test_policy # "Blind",
                    req.college.financial_aid_policy = "Need-aware">>

\* the score map with the key set to the value, and with the key removed
WithScore(scores, key, value) ==
  [k \in DOMAIN scores \cup {key} |-> IF k = key THEN value ELSE scores[k]]
WithoutScore(scores, key) == [k \in DOMAIN scores \ {key} |-> scores[k]]

ScoringReturned(name) == entry = name /\ pc = "returned"

\* C12: when policy.uses_testing is false, compute_composite never lists
\* "testing" in used_factors and returns the same ScoringResult whatever
\* testing score is supplied or left out; when policy.need_aware is false
\* the same holds for "ability_to_pay"; the ungated factors are all used, so
\* a gated factor is left out and not counted with 5.0.
C12_GatedFactorExcluded ==
  ScoringReturned("compute_composite") =>
    LET r == result.value
        gated == {f \in {"testing"} : ~req.policy.uses_testing}
                 \cup {f \in {"ability_to_pay"} : ~req.policy.need_aware}
    IN  /\ \A f \in gated :
             /\ ~InSeq(f, r.used_factors)
             /\ r = compute_composite(WithoutScore(req.scores, f), req.policy)
             /\ \A v \in ScoreValues \cup {50} :
                  r = compute_composite(WithScore(req.scores, f, v), req.policy)
        /\ Len(r.used_factors) = Len(FactorOrder) - Cardinality(gated)
        /\ \A f \in FactorKeys \ gated : InSeq(f, r.used_factors)

\* both gates closed while a testing score and an ability_to_pay score are
\* supplied
C12_Witness ==
  /\ ScoringReturned("compute_composite")
  /\ ~req.policy.uses_testing /\ ~req.policy.need_aware
  /\ Get(req.scores, "testing", NoneVal) = 130
  /\ Get(req.scores, "ability_to_pay", NoneVal) = 80
  /\ Len(result.value.used_factors) = 18

\* the weight compute_composite gives a used factor, read off its result:
\* 0.85 x FACTOR_WEIGHTS for a cluster factor when the note is set
EffectiveWeight(r, f) ==
  IF r.cluster_note # <<"None">> /\ InSeq(f, CLUSTER_FACTORS)
  THEN (FACTOR_WEIGHTS[f] * 85) \div 100 ELSE FACTOR_WEIGHTS[f]

UsedSet(r) == {r.used_factors[i] : i \in DOMAIN r.used_factors}

\* C13: for every raw score map (empty, with None values, with values out
\* of range) and every policy, the composite lies in [0, 1000], sum_weights
\* is strictly positive (some factor is used), and sum_weights is the sum
\* of the effective weights of exactly the factors in used_factors.
C13_CompositeInRange ==
  ScoringReturned("compute_composite") =>
    LET r == result.value
    IN  /\ 0 <= r.composite /\ r.composite <= 100000
        /\ Len(r.used_factors) >= 1
        /\ 10 * r.sum_weights > 0
        /\ r.sum_weights = SumOver(UsedSet(r), [f \in UsedSet(r) |-> EffectiveWeight(r, f)])

\* a map with a score above 10, one below 0 and a None, scored with both
\* gates closed
C13_Witness ==
  /\ ScoringReturned("compute_composite")
  /\ ~req.policy.uses_testing /\ ~req.policy.need_aware
  /\ DOMAIN req.scores = {"grades", "ecs_leadership", "awards_publications"}
  /\ req.scores["grades"] = 130
  /\ req.scores["ecs_leadership"] = -20
  /\ req.scores["awards_publications"] = NoneVal
  /\ result.value.composite > 50000

\* the scores compute_composite aggregates for the call in req: defaults,
\* gates and the clamp applied
CallClamped ==
  LET scores == with_defaults(req.scores, req.policy, TRUE)
  IN  [f \in {k \in FactorKeys : scores[k] # NoneVal} |->
         IF scores[f] < 0 THEN 0 ELSE IF scores[f] > 100 THEN 100 ELSE scores[f]]

\* the active cluster factors whose clamped score is at least 8
Triggering == {f \in DOMAIN CallClamped : InSeq(f, CLUSTER_FACTORS) /\ CallClamped[f] >= 80}

\* C14: compute_composite applies the cluster dampening iff at least two
\* active cluster factors have a clamped score of 8 or more; then every
\* active cluster factor weighs 0.85 x its FACTOR_WEIGHTS weight, every
\* other factor its FACTOR_WEIGHTS weight, and cluster_note names exactly
\* the triggering factors; otherwise all weights are the FACTOR_WEIGHTS
\* ones and cluster_note is None.
C14_ClusterDampening ==
  ScoringReturned("compute_composite") =>
    LET r == result.value
        applied == Cardinality(Triggering) >= 2
        weight == [f \in DOMAIN CallClamped |->
                     IF applied /\ InSeq(f, CLUSTER_FACTORS)
                     THEN (FACTOR_WEIGHTS[f] * 85) \div 100 ELSE FACTOR_WEIGHTS[f]]
        dampened == apply_cluster_dampening(CallClamped,
                                            [f \in DOMAIN CallClamped |-> FACTOR_WEIGHTS[f]])
    IN  /\ dampened.weights = weight
        /\ r.cluster_note = dampened.note
        /\ r.sum_weights = SumOver(DOMAIN weight, weight)
        /\ r.composite = (SumOver(DOMAIN weight,
                                  [f \in DOMAIN weight |-> CallClamped[f] * weight[f]])
                          * 1000) \div r.sum_weights
        /\ IF applied
           THEN /\ r.cluster_note[1] = "cluster_dampened_15pct"
                /\ {r.cluster_note[i] : i \in 2..Len(r.cluster_note)} = Triggering
                /\ Len(r.cluster_note) = 1 + Cardinality(Triggering)
           ELSE r.cluster_note = <<"None">>

\* two cluster factors trigger the dampening (one of them by a score above
\* 10) while a third active cluster factor scores 5.0
C14_Witness ==
  /\ ScoringReturned("compute_composite")
  /\ Get(req.scores, "ecs_leadership", NoneVal) = 130
  /\ Get(req.scores, "awards_publications", NoneVal) = 80
  /\ CallClamped["portfolio_audition"] = 50
  /\ result.value.cluster_note =
       <<"cluster_dampened_15pct", "ecs_leadership", "awards_publications">>
  /\ req.policy.uses_testing /\ req.policy.need_aware
  /\ result.value.sum_weights = SumOver(FactorKeys, FACTOR_WEIGHTS) - 69

\* C15 as stated: for every input score map, values below 0 or above 10
\* included, every non-None score in the map with_defaults returns lies in
\* [0, 10].
C15_NormalizedInRange ==
  ScoringReturned("with_defaults") =>
    \A f \in DOMAIN result.value :
      result.value[f] # NoneVal => (0 <= result.value[f] /\ result.value[f] <= 100)

\* C15, amended: with_defaults returns a supplied score unchanged, also when
\* it is below 0 or above 10 (every other non-None score it returns is 5.0);
\* the scores lie in [0, 10] once compute_composite has clamped the active
\* ones, and the clamp leaves a score that is already in [0, 10] as it is.
C15_ClampedInRange ==
  ScoringReturned("with_defaults") =>
    LET out == result.value
        clamped == clamped_scores(out, active_factors(out))
    IN  /\ \A f \in DOMAIN out :
             out[f] # NoneVal =>
               \/ out[f] = 50
               \/ f \in DOMAIN req.scores /\ out[f] = req.scores[f]
        /\ DOMAIN clamped = {f \in DOMAIN out : out[f] # NoneVal}
        /\ \A f \in DOMAIN clamped :
             /\ 0 <= clamped[f] /\ clamped[f] <= 100
             /\ (0 <= out[f] /\ out[f] <= 100) => clamped[f] = out[f]
             /\ out[f] < 0 => clamped[f] = 0
             /\ out[f] > 100 => clamped[f] = 100

\* with_defaults has returned a score above 10 and a score below 0
C15_Witness ==
  /\ ScoringReturned("with_defaults")
  /\ result.value["grades"] = 130
  /\ result.value["ecs_leadership"] = -20
  /\ result.value["testing"] = 80

\* C16: with_defaults returns a map over exactly the FACTOR_WEIGHTS keys;
\* a gated factor (testing without uses_testing, ability_to_pay without
\* need_aware) is None whatever was supplied; any other factor has the
\* supplied value when one is present, 5.0 when it is absent or None and
\* treat_missing_as_neutral is true, None when it is absent or None and
\* treat_missing_as_neutral is false; the call raises nothing and a missing
\* value never becomes 0.
C16_WithDefaults ==
  entry = "with_defaults" =>
    /\ pc = "returned" /\ raised = {}
    /\ DOMAIN result.value = DOMAIN FACTOR_WEIGHTS
    /\ \A f \in DOMAIN FACTOR_WEIGHTS :
         LET supplied == f \in DOMAIN req.scores /\ req.scores[f] # NoneVal
             gated == \/ f = "testing" /\ ~req.policy.uses_testing
                      \/ f = "ability_to_pay" /\ ~req.policy.need_aware
         IN  /\ gated => result.value[f] = NoneVal
             /\ (~gated /\ supplied) => result.value[f] = req.scores[f]
             /\ (~gated /\ ~supplied /\ req.treat_missing_as_neutral) =>
                  result.value[f] = 50
             /\ (~gated /\ ~supplied /\ ~req.treat_missing_as_neutral) =>
                  result.value[f] = NoneVal
             /\ ~supplied => result.value[f] # 0

\* a map with keys outside FACTOR_WEIGHTS and without a testing score,
\* normalised with treat_missing_as_neutral false and the need gate closed
C16_Witness ==
  /\ ScoringReturned("with_defaults")
  /\ "test_scores" \in DOMAIN req.scores
  /\ ~req.treat_missing_as_neutral
  /\ req.policy.uses_testing /\ ~req.policy.need_aware
  /\ result.value["testing"] = NoneVal
  /\ result.value["grades"] = 100
  /\ "test_scores" \notin DOMAIN result.value

\* C17: apply_conduct_penalty(C, s) returns C when s is None or s >= 5, and
\* otherwise C - (5 - s) * 8, or 0 when that is negative: the penalty is 40
\* at s = 0 and 20 at s = 2.5; for C in [0, 1000] the result is never
\* negative and never above C.
C17_ConductPenalty ==
  ScoringReturned("apply_conduct_penalty") =>
    LET C == req.composite
        s == req.conduct_score
        r == result.value
        reduced == C - (50 - s) * 80
    IN  /\ (s = NoneVal \/ s >= 50) => r = C
        /\ (s # NoneVal /\ s < 50) => r = (IF reduced < 0 THEN 0 ELSE reduced)
        /\ s = 0 => r = (IF C >= 4000 THEN C - 4000 ELSE 0)
        /\ s = 25 => r = (IF C >= 2000 THEN C - 2000 ELSE 0)
        /\ (0 <= C /\ C <= 100000) => (0 <= r /\ r <= C)

\* a composite of 10.0 with conduct score 2.5: the penalty of 20 is floored
C17_Witness ==
  /\ ScoringReturned("apply_conduct_penalty")
  /\ req.composite = 1000
  /\ req.conduct_score = 25
  /\ result.value = 0

\* the bands of the claim, on the acceptance rate as given (bp)
BandCap(a) == IF a < 1000 THEN 6000 ELSE IF a < 2500 THEN 8000 ELSE 10000
BandMult(a) == IF a < 1000 THEN 60 ELSE IF a < 2000 THEN 75
               ELSE IF a < 3500 THEN 90 ELSE 100

\* C18: for every signal assignment and every acceptance rate a,
\* compute_misc_uplift returns u with 0 <= u <= hard_cap(a), hard_cap being
\* 0.06 for a < 0.10, 0.08 for a < 0.25 and 0.10 otherwise, and u is the
\* sum of the increments scaled by 0.6 / 0.75 / 0.9 / 1.0 for a < 0.10 /
\* < 0.20 / < 0.35 / otherwise and then capped (the sum is read off the
\* uplift at a = 0.5, where the scale is 1.0, when the cap leaves it
\* visible); and predict never lets the uplifted probability exceed 0.98.
C18_UpliftWithinBandCap ==
  /\ (ScoringReturned("compute_misc_uplift") /\ req.acceptance_rate # NoneVal) =>
       LET a == req.acceptance_rate
           u == result.value
           unscaled == compute_misc_uplift(req.signals, 5000)
       IN  /\ 0 <= u /\ u <= BandCap(a)
           /\ unscaled < 10000 =>
                u = (IF (unscaled \div 100) * BandMult(a) < BandCap(a)
                     THEN (unscaled \div 100) * BandMult(a) ELSE BandCap(a))
  /\ (entry \in PredictEntries /\ pc = "reconcile" /\ req.misc_items.kind = "items") =>
       final_prob <= 98000000

\* the flags and tiers of a signal assignment, and its counts
FlagKeys == VaryFlags \cup BaseFlags
CountKeys == {k \in SignalKeys : k \notin FlagKeys}

\* C19: compute_misc_uplift is monotone-positive: for a fixed acceptance
\* rate, switching one more flag on, adding an award tier or raising a
\* count never lowers the uplift, and for fixed signals a higher acceptance
\* rate never lowers it.
C19_UpliftMonotone ==
  ScoringReturned("compute_misc_uplift") =>
    LET s == req.signals
        a == req.acceptance_rate
        u == result.value
    IN  /\ \A k \in FlagKeys :
             s[k] = 0 => compute_misc_uplift([s EXCEPT ![k] = 1], a) >= u
        /\ \A k \in CountKeys :
             compute_misc_uplift([s EXCEPT ![k] = s[k] + 1], a) >= u
        /\ \A higher \in UpliftRates :
             (a # NoneVal /\ higher > a) => compute_misc_uplift(s, higher) >= u

\* C20: every probability predict reports is capped at 85%:
\* result.probability <= 0.85, result.ml_probability <= 0.85 and
\* result.formula_probability <= 0.85.
C20_CappedAt85 ==
  Returned =>
    /\ result.probability <= 850000000
    /\ result.ml_probability <= 8500
    /\ result.formula_probability <= 8500

\* the raw value of a factor for build_audit (5.0 when missing or None),
\* clamped to [0, 10], in hundredths
AuditClamped(f) ==
  LET raw == IF f \in DOMAIN req.scores /\ req.scores[f] # NoneVal
             THEN req.scores[f] ELSE 500
  IN  IF raw < 0 THEN 0 ELSE IF raw > 1000 THEN 1000 ELSE raw

\* build_audit returns one row per factor of FACTOR_WEIGHTS, in its order,
\* and the row of a factor outside used_factors is the policy-gated one
AuditRowsShape ==
  /\ Len(result.value) = Len(FactorOrder)
  /\ \A i \in DOMAIN FactorOrder :
       LET row == result.value[i]
       IN  /\ row.factor = FactorOrder[i]
           /\ row.weight = FACTOR_WEIGHTS[row.factor]
           /\ ~InSeq(row.factor, req.used_factors) =>
                /\ row.score_0_to_10 = NoneVal
                /\ row.weighted_contribution = NoneVal
                /\ row.note = "policy-gated (not used)"

\* C22 as stated: one row per factor; a factor outside used_factors has
\* score None, contribution None and the note "policy-gated (not used)"; a
\* used factor has score = its raw value (5.0 when missing) clamped to
\* [0, 10] and contribution = score x FACTOR_WEIGHTS[factor].
C22_AuditRowsExact ==
  ScoringReturned("build_audit") =>
    /\ AuditRowsShape
    /\ \A i \in DOMAIN FactorOrder :
         LET row == result.value[i]
         IN  InSeq(row.factor, req.used_factors) =>
               /\ row.score_0_to_10 * 10 = AuditClamped(row.factor)
               /\ row.weighted_contribution * 40
                    = AuditClamped(row.factor) * FACTOR_WEIGHTS[row.factor]

\* C22, amended: as above, but the row of a used factor holds the clamped
\* value rounded to one decimal and the product of the clamped value and
\* the FACTOR_WEIGHTS weight rounded to two decimals (both exact when
\* nothing is lost by the rounding).
C22_AuditRowsRounded ==
  ScoringReturned("build_audit") =>
    /\ AuditRowsShape
    /\ \A i \in DOMAIN FactorOrder :
         LET row == result.value[i]
             clamped == AuditClamped(row.factor)
             product == clamped * FACTOR_WEIGHTS[row.factor]
         IN  InSeq(row.factor, req.used_factors) =>
               /\ row.score_0_to_10 * 10 - clamped \in -5..5
               /\ 0 <= row.score_0_to_10 /\ row.score_0_to_10 <= 100
               /\ row.weighted_contribution * 40 - product \in -20..20
               /\ clamped % 10 = 0 => row.score_0_to_10 * 10 = clamped
               /\ product % 40 = 0 => row.weighted_contribution * 40 = product

\* grades 8.25 and conduct_record 8.25 are used, a supplied testing score
\* is not: the rows hold 8.2, 206.25 and 4.12
C22_Witness ==
  /\ ScoringReturned("build_audit")
  /\ req.scores = [k \in AuditKeys |-> IF k = "testing" THEN 1300 ELSE 825]
  /\ ~InSeq("testing", req.used_factors)
  /\ result.value[1].score_0_to_10 = 82
  /\ result.value[1].weighted_contribution = 20625
  /\ result.value[19].weighted_contribution = 412
  /\ result.value[3].note = "policy-gated (not used)"

\* the rows with a score, as sets of <<factor, score>> pairs
ScoredPairs ==
  {Formatted(req.audit_rows[i]) :
     i \in {j \in DOMAIN req.audit_rows : req.audit_rows[j].score_0_to_10 # NoneVal}}

SeqSet(s) == {s[i] : i \in DOMAIN s}

\* C23: identify_strengths_and_weaknesses looks only at rows with a score,
\* sorted by score descending; the strengths are the entries with score
\* >= 7 among the first top_n, the weaknesses the entries with score <= 6
\* among the last top_n; for every top_n >= 0 each list has at most top_n
\* entries and no factor is in both.
C23_StrengthsAndWeaknesses ==
  ScoringReturned("identify_strengths_and_weaknesses") =>
    LET strengths == result.value.strengths
        weaknesses == result.value.weaknesses
        n == Cardinality(ScoredPairs)
        \* the pairs that at most k rows beat, and that beat at most k rows
        top(k) == {p \in ScoredPairs :
                     Cardinality({q \in ScoredPairs : q[2] > p[2]}) < k}
        bottom(k) == {p \in ScoredPairs :
                        Cardinality({q \in ScoredPairs : q[2] < p[2]}) < k}
    IN  /\ SeqSet(strengths) \subseteq {p \in top(req.top_n) : p[2] >= 70}
        /\ SeqSet(weaknesses) \subseteq {p \in bottom(req.top_n) : p[2] <= 60}
        /\ \A i, j \in DOMAIN strengths : i < j => strengths[i][2] >= strengths[j][2]
        /\ \A i, j \in DOMAIN weaknesses : i < j => weaknesses[i][2] >= weaknesses[j][2]
        /\ Len(strengths) <= req.top_n
        /\ Len(weaknesses) <= req.top_n
        /\ \A i \in DOMAIN strengths, j \in DOMAIN weaknesses :
             strengths[i][1] # weaknesses[j][1]

\* the points of one metric: 2 at or above the upper threshold, 1 at or
\* above the lower one; a missing metric (NoneVal or 0) is below both
MetricPoints(x, upper, lower) == IF x >= upper THEN 2 ELSE IF x >= lower THEN 1 ELSE 0

HighFactors(student) ==
  Cardinality({i \in DOMAIN student.factor_scores : student.factor_scores[i] >= 80})

TotalPoints(student) ==
  MetricPoints(student.gpa_unweighted, 395, 380)
  + MetricPoints(student.gpa_weighted, 430, 400)
  + MetricPoints(student.sat_total, 1550, 1500)
  + MetricPoints(student.act_composite, 35, 34)
  + MetricPoints(HighFactors(student), 15, 10)

\* one student per grid value of each metric, to raise a single metric to
RaisedValues ==
  {[gpa_unweighted |-> v[1], gpa_weighted |-> v[2], sat_total |-> v[3],
    act_composite |-> v[4], factor_scores |-> ManyFactors(v[5], 80)] :
     v \in {<<NoneVal, NoneVal, NoneVal, NoneVal, 0>>, <<0, 0, 0, 0, 9>>,
            <<379, 399, 1490, 33, 10>>, <<380, 400, 1500, 34, 14>>,
            <<395, 430, 1550, 35, 15>>}}

BucketRank == [below_average |-> 0, average |-> 1, strong |-> 2, perfect |-> 3]

\* C24: _assess_profile_strength adds 2 / 1 points per metric at the
\* thresholds 3.95 / 3.8 (gpa_unweighted), 4.3 / 4.0 (gpa_weighted),
\* 1550 / 1500 (SAT), 35 / 34 (ACT), 15 / 10 factor scores >= 8, and returns
\* perfect from 6 points, strong from 4, average from 2, below_average
\* otherwise; a missing metric (None or 0) adds nothing; raising a single
\* metric never gives a weaker bucket.
C24_ProfileStrength ==
  ScoringReturned("_assess_profile_strength") =>
    LET student == req.student
        total == TotalPoints(student)
        missing(x) == x = NoneVal \/ x = 0
    IN  /\ result.value = (IF total >= 6 THEN "perfect"
                           ELSE IF total >= 4 THEN "strong"
                           ELSE IF total >= 2 THEN "average"
                           ELSE "below_average")
        /\ (/\ missing(student.gpa_unweighted) /\ missing(student.gpa_weighted)
            /\ missing(student.sat_total) /\ missing(student.act_composite)
            /\ HighFactors(student) < 10) => result.value = "below_average"
        /\ \A other \in RaisedValues :
             \A raised_student \in
                  {[student EXCEPT !.gpa_unweighted = other.gpa_unweighted],
                   [student EXCEPT !.gpa_weighted = other.gpa_weighted],
                   [student EXCEPT !.sat_total = other.sat_total],
                   [student EXCEPT !.act_composite = other.act_composite],
                   [student EXCEPT !.factor_scores = other.factor_scores]} :
               (/\ raised_student.gpa_unweighted >= student.gpa_unweighted
                /\ raised_student.gpa_weighted >= student.gpa_weighted
                /\ raised_student.sat_total >= student.sat_total
                /\ raised_student.act_composite >= student.act_composite
                /\ HighFactors(raised_student) >= HighFactors(student))
               => BucketRank[_assess_profile_strength(raised_student)]
                    >= BucketRank[result.value]

\* exactly 6 points (gpa 3.95 and 4.3, SAT 1550) with the ACT missing and
\* 9 high factor scores: perfect
C24_Witness ==
  /\ ScoringReturned("_assess_profile_strength")
  /\ req.student.gpa_unweighted = 395 /\ req.student.gpa_weighted = 430
  /\ req.student.sat_total = 1550 /\ req.student.act_composite = NoneVal
  /\ HighFactors(req.student) = 9
  /\ result.value = "perfect"

(***************************************************************************)
(* Concurrent invocations of compute_composite (with the                   *)
(* apply_cluster_dampening it calls), build_audit and predict's elite      *)
(* calibration, each invocation a thread that reads and writes the heap.   *)
(***************************************************************************)
\* the heap with the object allocated or replaced
Put(h, id, value) == (id :> value) @@ h

\* the dict that the dampening loop assigned into were it the module's table
DampenedDict_shared(thread) == FactorWeightsId

\* the dict that `dampened[factor] = dampened[factor] * 0.85` assigns into:
\* the copy made by dict(weights)
DampenedDict(thread) == <<thread, "dampened">>

ConcInit ==
  /\ CallIdle
  /\ heap = PredictorHeap(predictor)
  /\ threads = [t \in Threads |-> IdleThread]
  /\ AuthIdle
  /\ CacheIdle

\* a thread calls compute_composite(raw_scores, policy)
ConcCallComputeComposite(t) ==
  /\ threads[t].pc = "idle"
  /\ \E raw \in DOMAIN CallerScoreMaps, policy \in Policies :
       threads' = [threads EXCEPT ![t] =
                     [kind |-> "compute_composite", pc |-> "with_defaults",
                      raw |-> raw, policy |-> policy,
                      args |-> [raw_scores |-> heap[raw], policy |-> policy],
                      effective_weights |-> raw, high_scorers |-> <<>>, i |-> 0,
                      cluster_note |-> <<"None">>, result |-> NoneVal]]
  /\ UNCHANGED heap
  /\ UNCHANGED <<callVars, authVars, cacheVars>>

\* scores = with_defaults(raw_scores, policy): a new dict over the keys of
\* FACTOR_WEIGHTS
ConcWithDefaults(t) ==
  /\ threads[t].pc = "with_defaults"
  /\ heap' = Put(heap, <<t, "scores">>,
                 [factor \in DOMAIN heap[FactorWeightsId] |->
                    with_defaults(heap[threads[t].raw], threads[t].policy, TRUE)[factor]])
  /\ threads' = [threads EXCEPT ![t].pc = "active_factors"]
  /\ UNCHANGED <<callVars, authVars, cacheVars>>

\* active_factors = {factor: FACTOR_WEIGHTS[factor] ... if value is not None}
ConcActiveFactors(t) ==
  /\ threads[t].pc = "active_factors"
  /\ LET scores == heap[<<t, "scores">>]
     IN  heap' = Put(heap, <<t, "active_factors">>,
                     [factor \in {k \in DOMAIN scores : scores[k] # NoneVal} |->
                        heap[FactorWeightsId][factor]])
  /\ threads' = [threads EXCEPT ![t].pc = "clamped_scores"]
  /\ UNCHANGED <<callVars, authVars, cacheVars>>

\* clamped_scores = {factor: clamp_score(scores[factor]) ...}
ConcClampScores(t) ==
  /\ threads[t].pc = "clamped_scores"
  /\ heap' = Put(heap, <<t, "clamped_scores">>,
                 clamped_scores(heap[<<t, "scores">>], heap[<<t, "active_factors">>]))
  /\ threads' = [threads EXCEPT ![t].pc = "high_scorers"]
  /\ UNCHANGED <<callVars, authVars, cacheVars>>

\* apply_cluster_dampening up to `dampened = dict(weights)`: returns the
\* weights it was given when fewer than two cluster factors score >= 8
ConcHighScorers(t) ==
  /\ threads[t].pc = "high_scorers"
  /\ LET high_scorers == SelectSeq(heap[ClusterFactorsId],
                                   LAMBDA f : Get(heap[<<t, "clamped_scores">>], f, 0) >= 80)
     IN  IF Len(high_scorers) < 2
         THEN /\ threads' = [threads EXCEPT ![t].pc = "weighted_sum",
                                            ![t].effective_weights = <<t, "active_factors">>,
                                            ![t].cluster_note = <<"None">>]
              /\ UNCHANGED heap
         ELSE /\ threads' = [threads EXCEPT ![t].pc = "dampen",
                                            ![t].high_scorers = high_scorers,
                                            ![t].i = 1]
              /\ heap' = Put(heap, <<t, "dampened">>, heap[<<t, "active_factors">>])
  /\ UNCHANGED <<callVars, authVars, cacheVars>>

\* one iteration of `for factor in CLUSTER_FACTORS`; after the last one the
\* function returns (dampened, note)
ConcDampenFactor(t) ==
  /\ threads[t].pc = "dampen"
  /\ LET factor == heap[ClusterFactorsId][threads[t].i]
         dampened == DampenedDict(t)
         last == threads[t].i = Len(heap[ClusterFactorsId])
     IN  /\ heap' = IF factor \in DOMAIN heap[dampened]
                    THEN [heap EXCEPT ![dampened][factor] = (@ * 85) \div 100]
                    ELSE heap
         /\ threads' = [threads EXCEPT
                          ![t].i = @ + 1,
                          ![t].pc = IF last THEN "weighted_sum" ELSE "dampen",
                          ![t].effective_weights =
                             IF last THEN <<t, "dampened">> ELSE @,
                          ![t].cluster_note =
                             IF last
                             THEN <<"cluster_dampened_15pct">> \o threads[t].high_scorers
                             ELSE @]
  /\ UNCHANGED <<callVars, authVars, cacheVars>>

\* steps 5 and 6 of compute_composite and the ScoringResult
ConcWeightedSum(t) ==
  /\ threads[t].pc = "weighted_sum"
  /\ LET clamped == heap[<<t, "clamped_scores">>]
         effective_weights == heap[threads[t].effective_weights]
         weighted_sum == SumOver(DOMAIN effective_weights,
                                 [f \in DOMAIN effective_weights |->
                                    clamped[f] * effective_weights[f]])
         sum_weights == SumOver(DOMAIN effective_weights, effective_weights)
     IN  threads' = [threads EXCEPT
                       ![t].pc = "done",
                       ![t].result =
                          [composite |-> (weighted_sum * 1000) \div sum_weights,
                           sum_weights |-> sum_weights,
                           used_factors |-> SelectSeq(FactorOrder,
                                              LAMBDA f : f \in DOMAIN effective_weights),
                           cluster_note |-> threads[t].cluster_note]]
  /\ UNCHANGED heap
  /\ UNCHANGED <<callVars, authVars, cacheVars>>

\* a thread runs build_audit(scores, used_factors); the weight of each row
\* is the one FACTOR_WEIGHTS.items() yields
ConcBuildAudit(t) ==
  /\ threads[t].pc = "idle"
  /\ \E scores \in DOMAIN CallerAuditMaps, used_factors \in UsedFactorLists :
       LET rows == build_audit(heap[scores], used_factors, <<>>)
       IN  threads' = [threads EXCEPT ![t] =
                         [kind |-> "build_audit", pc |-> "done", raw |-> scores,
                          args |-> [scores |-> heap[scores],
                                    used_factors |-> used_factors],
                          result |-> [i \in DOMAIN rows |->
                                        [rows[i] EXCEPT !.weight =
                                           heap[FactorWeightsId][rows[i].factor]]]]]
  /\ UNCHANGED heap
  /\ UNCHANGED <<callVars, authVars, cacheVars>>

\* a thread runs predict's _apply_elite_calibration over self.elite_calibration
ConcEliteCalibration(t) ==
  /\ threads[t].pc = "idle"
  /\ \E probability \in ConcProbabilities, name \in CollegeNames :
       LET table == heap[EliteCalibrationId]
           m == EliteMatch(table, Lower(name))
       IN  threads' = [threads EXCEPT ![t] =
                         [kind |-> "predict", pc |-> "done", raw |-> EliteCalibrationId,
                          args |-> [probability |-> probability, name |-> name],
                          result |-> IF m = 0 THEN probability * 1000
                                     ELSE Min(probability * table[m].factor,
                                              table[m].max_prob * 100000)]]
  /\ UNCHANGED heap
  /\ UNCHANGED <<callVars, authVars, cacheVars>>

\* the invocation returns; its own dicts are garbage
ConcReturn(t) ==
  /\ threads[t].pc = "done"
  /\ threads' = [threads EXCEPT ![t] = IdleThread]
  /\ heap' = [id \in {x \in DOMAIN heap : x[1] # t} |-> heap[id]]
  /\ UNCHANGED <<callVars, authVars, cacheVars>>

ConcNext ==
  \/ \E t \in Threads : ConcCallComputeComposite(t)
  \/ \E t \in Threads : ConcWithDefaults(t)
  \/ \E t \in Threads : ConcActiveFactors(t)
  \/ \E t \in Threads : ConcClampScores(t)
  \/ \E t \in Threads : ConcHighScorers(t)
  \/ \E t \in Threads : ConcDampenFactor(t)
  \/ \E t \in Threads : ConcWeightedSum(t)
  \/ \E t \in Threads : ConcBuildAudit(t)
  \/ \E t \in Threads : ConcEliteCalibration(t)
  \/ \E t \in Threads : ConcReturn(t)

ConcSpec == ConcInit /\ [][ConcNext]_vars

\* the result of the invocation of a thread when it runs alone
ResultAlone(t) ==
  IF threads[t].kind = "compute_composite"
  THEN compute_composite(threads[t].args.raw_scores, threads[t].args.policy)
  ELSE IF threads[t].kind = "build_audit"
  THEN build_audit(threads[t].args.scores, threads[t].args.used_factors, <<>>)
  ELSE _apply_elite_calibration(EliteCalibrationOf(predictor),
                                threads[t].args.probability, threads[t].args.name)

\* C21: concurrent invocations of compute_composite (with its
\* apply_cluster_dampening), build_audit and predict's calibration leave
\* FACTOR_WEIGHTS, CLUSTER_FACTORS, the callers' score maps and the elite
\* calibration table as they were; under every interleaving each invocation
\* returns the result it returns when run alone, and two invocations with
\* identical inputs return identical results.
C21_InvocationsIsolated ==
  /\ \A id \in DOMAIN PredictorHeap(predictor) :
       heap[id] = PredictorHeap(predictor)[id]
  /\ \A t \in Threads : threads[t].pc = "done" => threads[t].result = ResultAlone(t)
  /\ \A t1, t2 \in Threads :
       (/\ threads[t1].pc = "done" /\ threads[t2].pc = "done"
        /\ threads[t1].kind = threads[t2].kind
        /\ threads[t1].args = threads[t2].args)
       => threads[t1].result = threads[t2].result

\* two invocations on the same caller's map overlap, both dampen: one has
\* returned its result while the other is inside the dampening loop
C21_Witness ==
  /\ threads[1].pc = "done" /\ threads[1].kind = "compute_composite"
  /\ threads[1].result.cluster_note # <<"None">>
  /\ threads[2].pc = "dampen" /\ threads[2].i = 2
  /\ threads[2].raw = threads[1].raw

\* C27: in every PredictionResult of the hybrid path, model_used names the
\* model whose predict_proba produced the ML probability, also when the
\* requested model_name is not loaded and predict falls back to the
\* ensemble or to the first loaded model.
C27_ModelUsedIsModelRun ==
  HybridReturned => result.model_used = model_key

\* the probability and the acceptance rate that the reconciliation works on:
\* final_prob clipped to [0.02, 0.98] (e8), the rate defaulted and clipped (bp)
C29_p == Clip(final_prob, 2000000, 98000000)
C29_a ==
  Clip(IF req.college.acceptance_rate = NoneVal THEN 5000
       ELSE req.college.acceptance_rate, 200, 9800)

\* C29: on the hybrid path the min_allowed clamp is never taken: with p and
\* a both in [0.02, 0.98], 0.7p + 0.3a >= max(0.02, 0.3a) as predict
\* evaluates it, so the final probability is min(0.7p + 0.3a, a + 0.35, 0.98)
\* and is never below 0.014 + 0.3a.
C29_MinClampUnreachable ==
  (HybridReturned /\ pc = "returned") =>
    /\ ReconcileBranch(C29_p, C29_a) # "min_allowed"
    /\ result.probability = Min(7 * C29_p + 30000 * C29_a,
                                Min((C29_a + 3500) * 100000, 980000000))
    /\ result.probability >= 14000000 + 30000 * C29_a

\* C29 amended: on the hybrid path the min_allowed clamp is taken only where
\* 0.7p + 0.3a equals min_allowed and the doubles round the blend below it;
\* the final probability, to nine places, is min(0.7p + 0.3a, a + 0.35,
\* 0.98) and is never below 0.014 + 0.3a.
C29_MinClampOnlyByRounding ==
  (HybridReturned /\ pc = "returned") =>
    /\ ReconcileBranch(C29_p, C29_a) = "min_allowed"
         => 7 * C29_p + 30000 * C29_a = Max(20000000, 30000 * C29_a)
    /\ result.probability = Min(7 * C29_p + 30000 * C29_a,
                                Min((C29_a + 3500) * 100000, 980000000))
    /\ result.probability >= 14000000 + 30000 * C29_a

\* a result at the lowest point: p and a both clipped up to 0.02, the double
\* blend 0.019999999999999997 below min_allowed = 0.02, the elif taken
C29_Witness ==
  /\ HybridReturned /\ pc = "returned"
  /\ final_prob < 2000000
  /\ req.college.acceptance_rate # NoneVal /\ req.college.acceptance_rate < 200
  /\ ReconcileBranch(C29_p, C29_a) = "min_allowed"
  /\ result.probability = 20000000

\* the composite of the call in req computed from the same clamped scores
\* with the undampened FACTOR_WEIGHTS (hundredths)
UndampenedComposite ==
  (SumOver(DOMAIN CallClamped,
           [f \in DOMAIN CallClamped |-> CallClamped[f] * FACTOR_WEIGHTS[f]]) * 1000)
  \div SumOver(DOMAIN CallClamped, [f \in DOMAIN CallClamped |-> FACTOR_WEIGHTS[f]])

\* C28: cluster dampening never credits an applicant more: for every score
\* map and policy for which the dampening triggers, the composite is at most
\* the composite computed from the same clamped scores with the undampened
\* FACTOR_WEIGHTS.
C28_DampeningNeverCredits ==
  (ScoringReturned("compute_composite") /\ result.value.cluster_note # <<"None">>)
    => result.value.composite <= UndampenedComposite

(***************************************************************************)
(* api/routes/auth.py and api/dependencies.py: the access tokens the auth  *)
(* routes return and get_current_user_id.  A string is the sequence of its *)
(* characters.                                                             *)
(***************************************************************************)
MaxIssued == 2

GooglePrefix == <<"g","o","o","g","l","e","_","t","o","k","e","n","_">>
DemoPrefix == <<"d","e","m","o","_","t","o","k","e","n","_">>
TempPrefix == <<"t","e","m","p","_","t","o","k","e","n","_">>
DemoUser == <<"d","e","m","o","_","u","s","e","r">>

\* user ids as Supabase Auth hands them out, and the google_id parameter of
\* POST /google-oauth (any string of the caller)
UserIds == {<<"a","1">>, <<"b","2">>}
GoogleIds == {<<"9">>, <<"9","_","7">>}

\* settings.supabase_service_key, the key jwt.decode verifies with, and the
\* keys a JWT can be signed with: that key or another one
ServiceKey == "K"
SigningKeys == {"K", "S"}

\* token.startswith(prefix)
StartsWith(token, prefix) ==
  Len(token) >= Len(prefix) /\ SubSeq(token, 1, Len(prefix)) = prefix

\* the position of the first sep in s, 0 when there is none
FirstIndex(s, sep) ==
  IF \E i \in DOMAIN s : s[i] = sep
  THEN SetMin({i \in DOMAIN s : s[i] = sep}) ELSE 0

\* s.split(sep, 1)
SplitOnce(s, sep) ==
  LET i == FirstIndex(s, sep)
  IN  IF i = 0 THEN <<s>>
      ELSE <<SubSeq(s, 1, i - 1), SubSeq(s, i + 1, Len(s))>>

RECURSIVE SplitAll(_, _)
\* s.split(sep)
SplitAll(s, sep) ==
  LET i == FirstIndex(s, sep)
  IN  IF i = 0 THEN <<s>>
      ELSE <<SubSeq(s, 1, i - 1)>> \o SplitAll(SubSeq(s, i + 1, Len(s)), sep)

\* a compact JWT: header.payload.signature; the payload is written as the
\* value of its "sub" claim (empty: no such claim), the signature as the
\* key that made it
Jwt(sub, key) == <<"e","y","J",".">> \o sub \o <<".", key>>

\* jose's jwt.decode(token, key, algorithms=[HS256]): JWTError unless the
\* token has three segments and its signature verifies under the key
jwt_decode(token, key) ==
  LET segments == SplitAll(token, ".")
  IN  IF Len(segments) # 3 \/ segments[3] # <<key>>
      THEN [ok |-> FALSE, sub |-> NoneName]
      ELSE [ok |-> TRUE,
            sub |-> IF segments[2] = <<>> THEN NoneName ELSE segments[2]]

Unauthorized == [status |-> 401, user_id |-> NoneName]

\* get_current_user_id(credentials): the user id, or HTTP 401
get_current_user_id(token) ==
  IF StartsWith(token, GooglePrefix)
  THEN LET remainder == SubSeq(token, Len(GooglePrefix) + 1, Len(token))
           parts == SplitOnce(remainder, "_")
       IN  IF parts[1] # <<>> THEN [status |-> 200, user_id |-> parts[1]]
           ELSE Unauthorized
  ELSE IF StartsWith(token, DemoPrefix)
  THEN [status |-> 200, user_id |-> DemoUser]
  ELSE LET payload == jwt_decode(token, ServiceKey)
       IN  IF ~payload.ok \/ payload.sub = NoneName THEN Unauthorized
           ELSE [status |-> 200, user_id |-> payload.sub]

\* auth_response.session of Supabase: None, or a session whose access_token
\* is a JWT for the user
Sessions == {"None"} \cup SigningKeys

\* access_token = session.access_token if session else f"temp_token_{user_id}"
SessionToken(user_id, session) ==
  IF session = "None" THEN TempPrefix \o user_id ELSE Jwt(user_id, session)

\* access_token = f"google_token_{user_id}_{google_id}"
GoogleToken(user_id, google_id) == GooglePrefix \o user_id \o <<"_">> \o google_id

\* bearer tokens a client can make up without the server; the default of
\* supabase_service_key is a literal of config/settings.py, so a JWT signed
\* with the key in force is among them
ForgedTokens ==
  {GoogleToken(u, <<"0">>) : u \in UserIds}
  \cup {GooglePrefix \o u : u \in UserIds}
  \cup {GooglePrefix, GooglePrefix \o <<"_","0">>, DemoPrefix \o <<"0">>,
        <<"0">>, Jwt(<<>>, ServiceKey)}
  \cup {TempPrefix \o u : u \in UserIds}
  \cup {Jwt(u, key) : u \in UserIds, key \in SigningKeys}

\* POST /signup succeeds
Signup ==
  /\ Cardinality(issued) < MaxIssued
  /\ \E user_id \in UserIds, session \in Sessions :
       issued' = issued \cup {[token |-> SessionToken(user_id, session),
                               user_id |-> user_id, branch |-> "signup"]}
  /\ UNCHANGED last_auth
  /\ UNCHANGED <<callVars, concVars, cacheVars>>

\* POST /login succeeds
Login ==
  /\ Cardinality(issued) < MaxIssued
  /\ \E user_id \in UserIds, session \in Sessions :
       issued' = issued \cup {[token |-> SessionToken(user_id, session),
                               user_id |-> user_id, branch |-> "login"]}
  /\ UNCHANGED last_auth
  /\ UNCHANGED <<callVars, concVars, cacheVars>>

\* POST /google-oauth succeeds
GoogleOauth ==
  /\ Cardinality(issued) < MaxIssued
  /\ \E user_id \in UserIds, google_id \in GoogleIds :
       issued' = issued \cup {[token |-> GoogleToken(user_id, google_id),
                               user_id |-> user_id, branch |-> "google-oauth"]}
  /\ UNCHANGED last_auth
  /\ UNCHANGED <<callVars, concVars, cacheVars>>

\* a later request presents a bearer token to get_current_user_id
GetCurrentUserId ==
  /\ \E token \in {i.token : i \in issued} \cup ForgedTokens :
       LET outcome == get_current_user_id(token)
       IN  last_auth' = [called |-> TRUE, token |-> token,
                         status |-> outcome.status, user_id |-> outcome.user_id]
  /\ UNCHANGED issued
  /\ UNCHANGED <<callVars, concVars, cacheVars>>

AuthNext ==
  \/ Signup
  \/ Login
  \/ GoogleOauth
  \/ GetCurrentUserId

AuthSpec == Init /\ [][AuthNext]_vars

\* the presented token is a JWT whose signature verifies under the
\* configured key and that carries a subject
VerifiedJwt(token) ==
  /\ Len(SplitAll(token, ".")) = 3
  /\ SplitAll(token, ".")[3] = <<ServiceKey>>
  /\ SplitAll(token, ".")[2] # <<>>

\* C25: get_current_user_id returns a user id only for a token whose JWT
\* signature verifies under the configured key and that carries a subject,
\* and raises HTTP 401 for every other token; no caller obtains a user's id
\* with a token the server did not issue.
C25_OnlyVerifiedTokens ==
  last_auth.called =>
    /\ last_auth.status = 200 =>
         (VerifiedJwt(last_auth.token)
          /\ last_auth.user_id = SplitAll(last_auth.token, ".")[2])
    /\ ~VerifiedJwt(last_auth.token) => last_auth.status = 401
    /\ (last_auth.status = 200 /\ last_auth.user_id \in UserIds)
         => \E i \in issued : i.token = last_auth.token

\* C30: an access_token returned by a successful signup, login or
\* google-oauth is accepted by get_current_user_id on a later request and
\* resolves to the same user id, in every issuing branch.
C30_IssuedTokenAccepted ==
  \A i \in issued :
    (last_auth.called /\ last_auth.token = i.token)
      => (last_auth.status = 200 /\ last_auth.user_id = i.user_id)

(***************************************************************************)
(* main.py: POST /api/suggest/colleges and its suggestion_cache.  Request  *)
(* fields are the strings the frontend sends; the academic score of a      *)
(* response is written in hundredths.                                      *)
(***************************************************************************)
CACHE_DURATION == 300

\* the clock advances in steps of TickSeconds up to MaxTicks steps
TickSeconds == 100
MaxTicks == 4

\* safe_float(value) of a str: 0.0 for an empty or non-numeric string, for
\* a nan and for an infinity
safe_float(value) ==
  IF Strip(value) = <<>> \/ ~float(value).ok \/ float(value).value.kind # "finite"
  THEN Zero ELSE float(value).value

\* safe_float(value, 0) of a float
FiniteOrZero(x) == IF x.kind = "finite" THEN x ELSE Zero

\* suggest_colleges.safe_int(value): 0 for an empty or non-integer string
safe_int(value) ==
  IF Strip(value) = <<>> \/ ~int(value).ok THEN 0 ELSE int(value).value

\* CollegeSuggestionsRequest with the defaults of its fields (the fields the
\* handler reads)
DefaultRequest ==
  [gpa_unweighted |-> <<"3",".","5">>, gpa_weighted |-> <<"3",".","8">>,
   sat |-> <<"1","2","0","0">>, act |-> <<"2","5">>,
   major |-> <<"C","o","m","p","u","t","e","r"," ","S","c","i","e","n","c","e">>,
   extracurricular_depth |-> <<"5">>, leadership_positions |-> <<"5">>,
   awards_publications |-> <<"5">>, passion_projects |-> <<"5">>]

\* the requests made: the defaults, other factor scores, no GPA, and two
\* requests whose major and extracurricular_depth hold an underscore
SuggestionRequests ==
  {DefaultRequest,
   [DefaultRequest EXCEPT !.leadership_positions = <<"1","0">>],
   [DefaultRequest EXCEPT !.leadership_positions = <<"1","0">>,
                          !.passion_projects = <<"3",".","5">>],
   [DefaultRequest EXCEPT !.gpa_unweighted = <<>>],
   [DefaultRequest EXCEPT !.major = <<"C","S","_","5">>],
   [DefaultRequest EXCEPT !.major = <<"C","S">>,
                          !.extracurricular_depth = <<"5","_","5">>]}

\* cache_key: the six fields joined by "_"
CacheKey(request) ==
  request.gpa_unweighted \o <<"_">> \o request.gpa_weighted \o <<"_">>
  \o request.sat \o <<"_">> \o request.act \o <<"_">> \o request.major
  \o <<"_">> \o request.extracurricular_depth

\* the except branch's answer; never stored
FailureResponse ==
  [success |-> FALSE, error |-> "str(e)", suggestions |-> <<>>,
   traceback |-> "traceback.format_exc()"]

\* response_data of a request computed afresh; the suggestions are the
\* value of get_balanced_suggestions(major, student_strength), written as
\* its arguments
fresh_response(request) ==
  LET gpa_unweighted == safe_float(request.gpa_unweighted)
      sat_score == safe_int(request.sat)
      act_score == safe_int(request.act)
      gpa_score == IF FCmp(gpa_unweighted, Zero) > 0
                   THEN FMin(FromInt(10), FMul(FDiv(gpa_unweighted, 4), FromInt(10)))
                   ELSE FromInt(5)
      sat_score_scaled ==
        IF sat_score > 0
        THEN FMin(FromInt(10),
                  FMax(Zero, FAdd(FMul(FDiv(FromInt(sat_score - 1200), 400),
                                       FromInt(5)), FromInt(5))))
        ELSE FromInt(5)
      act_score_scaled ==
        IF act_score > 0
        THEN FMin(FromInt(10),
                  FMax(Zero, FAdd(FMul(FDiv(FromInt(act_score - 20), 16),
                                       FromInt(5)), FromInt(5))))
        ELSE FromInt(5)
      test_score == FMax(sat_score_scaled, act_score_scaled)
      academic_strength == FDiv(FAdd(gpa_score, test_score), 2)
      ec_strength ==
        FDiv(FAdd(FAdd(FAdd(safe_float(request.extracurricular_depth),
                            safe_float(request.leadership_positions)),
                       safe_float(request.awards_publications)),
                  safe_float(request.passion_projects)), 4)
      student_strength ==
        FAdd(FMul(academic_strength, float(<<"0",".","7">>).value),
             FMul(ec_strength, float(<<"0",".","3">>).value))
      academic_score ==
        FiniteOrZero(
          FAdd(FAdd(FAdd(FMul(gpa_unweighted, FromInt(25)),
                         FMul(FromInt(sat_score), float(<<"0",".","1">>).value)),
                    FMul(FromInt(act_score), float(<<"2",".","5">>).value)),
               FMul(ec_strength, FromInt(5))))
  IN  [success |-> TRUE,
       suggestions |-> <<request.major, student_strength>>,
       academic_score |-> RoundDecimal(academic_score, 2),
       target_tiers |-> IF FCmp(academic_strength, FromInt(8)) >= 0
                        THEN <<"Elite", "Highly Selective">>
                        ELSE IF FCmp(academic_strength, FromInt(6)) >= 0
                        THEN <<"Highly Selective", "Moderately Selective">>
                        ELSE <<"Moderately Selective", "Less Selective">>,
       prediction_method |-> "real_ipeds_data"]

\* fresh_response of the requests made, computed once
FreshResponses == [request \in SuggestionRequests |-> fresh_response(request)]

\* POST /api/suggest/colleges; fails: the suggestion service raised
SuggestColleges ==
  /\ \E request \in SuggestionRequests, fails \in BOOLEAN :
       LET cache_key == CacheKey(request)
           current_time == clock
           hits == {e \in suggestion_cache :
                      e.key = cache_key /\ current_time - e.time < CACHE_DURATION}
       IN  IF hits # {}
           THEN LET e == CHOOSE x \in hits : TRUE
                IN  /\ served' = [status |-> 200, request |-> request,
                                  response |-> e.data, from_cache |-> TRUE,
                                  age |-> current_time - e.time]
                    /\ UNCHANGED suggestion_cache
           ELSE IF fails
           THEN /\ served' = [status |-> 200, request |-> request,
                              response |-> FailureResponse, from_cache |-> FALSE,
                              age |-> 0]
                /\ UNCHANGED suggestion_cache
           ELSE /\ served' = [status |-> 200, request |-> request,
                              response |-> FreshResponses[request],
                              from_cache |-> FALSE, age |-> 0]
                /\ suggestion_cache' =
                     {e \in suggestion_cache : e.key # cache_key}
                     \cup {[key |-> cache_key, data |-> FreshResponses[request],
                            time |-> current_time]}
  /\ UNCHANGED clock
  /\ UNCHANGED <<callVars, concVars, authVars>>

\* time passes
Tick ==
  /\ clock < MaxTicks * TickSeconds
  /\ clock' = clock + TickSeconds
  /\ UNCHANGED <<suggestion_cache, served>>
  /\ UNCHANGED <<callVars, concVars, authVars>>

CacheNext ==
  \/ SuggestColleges
  \/ Tick

CacheSpec == Init /\ [][CacheNext]_vars

\* C26: a response served from suggestion_cache equals the fresh response
\* for the same request (the cache key distinguishes every request field
\* that influences the suggestions), entries older than CACHE_DURATION are
\* never served, and failure responses are never stored.
C26_CacheServesFreshResponse ==
  /\ (served.status = 200 /\ served.from_cache) =>
       /\ served.response = FreshResponses[served.request]
       /\ served.age < CACHE_DURATION
  /\ \A e \in suggestion_cache : e.data.success

====
